---------------------------- MODULE Spec2Model ----------------------------
(***************************************************************************)
(* Editorial decision and rate-limited publishing pipeline.                *)
(*                                                                         *)
(* The module models, from the Python sources:                             *)
(*   - app/error_recovery.py : RateLimiter, CircuitBreaker, the            *)
(*     retry_with_backoff decorator and resilient_groq_call;               *)
(*   - scheduler.py : hourly_publish_burst and the functions it calls;     *)
(*   - main.py : test_burst, which starts a second burst;                  *)
(*   - app/content_safety.py : ContentSafety and is_safe_to_post;          *)
(*   - scripts/ai_content_monitor.py : AIContentMonitor;                   *)
(*   - scripts/duplicate_detector.py : DuplicateDetector;                  *)
(*   - scripts/post_instagram.py, scripts/post_instagram_graph.py : main;  *)
(*   - app/diversity.py : DiversityManager;                                *)
(*   - app/api_key_manager.py : APIKeyManager.                             *)
(*                                                                         *)
(* Each component has its own specification (SpecRL, SpecCB, SpecRetry,    *)
(* SpecGroq, SpecBurst, SpecSafety, SpecMonitor, SpecDup, SpecOverlap,     *)
(* SpecDiversity, SpecKeys), explored with the variables of the others     *)
(* held at their initial value.  SpecGates runs one burst next to the      *)
(* posting scripts, which share the store with it; SpecBreaker runs a      *)
(* burst next to a circuit breaker; SpecTwoBursts runs two bursts at once. *)
(* Time is the integer number of seconds read from the clock.              *)
(***************************************************************************)
EXTENDS Integers, Sequences, FiniteSets, TLC

VARIABLES
    now,                \* the clock: time.time() / datetime.utcnow()
    \* ---- RateLimiter (app/error_recovery.py)
    max_calls,          \* RateLimiter.max_calls
    time_window,        \* RateLimiter.time_window
    calls,              \* RateLimiter.calls: the stored call timestamps
    admitted,           \* history: the times at which allow_request returned True
    rl_ret,             \* history: <<r>> when the last allow_request returned r
    rl_pc,              \* position of wait_if_needed(): "idle", or "waiting" while
                        \*   it sleeps between two calls of allow_request
    rl_wait,            \* history: <<>>, or <<[value, at]>> when the last call on
                        \*   the limiter was get_wait_time(), made at time `at`
    \* ---- CircuitBreaker (app/error_recovery.py)
    failure_threshold,  \* CircuitBreaker.failure_threshold
    timeout,            \* CircuitBreaker.timeout, seconds
    failures,           \* CircuitBreaker.failures
    last_failure_time,  \* CircuitBreaker.last_failure_time: <<>> is None, <<t>> a time
    state,              \* CircuitBreaker.state: "CLOSED", "OPEN" or "HALF_OPEN"
    cb_pc,              \* position of call(): "idle", or "in_func" while func runs
    cb_calls,           \* history: number of call() invocations so far
    cb_invoked,         \* history: number of times func was invoked by call()
    cb_last,            \* history: the last call(): state at entry, state when func
                        \*   was invoked, and how it ended
    cb_ret,             \* history: <<>> or the pair <<ok, result>> the last call returned
    streak,             \* history: invocations of func that raised an Exception
                        \*   since the last successful one
    \* ---- retry_with_backoff (app/error_recovery.py)
    max_retries,        \* decorator argument max_retries
    initial_delay,      \* decorator argument initial_delay, seconds
    max_delay,          \* decorator argument max_delay, seconds
    exponential_base,   \* decorator argument exponential_base
    exceptions,         \* decorator argument exceptions: the retryable error classes
    rt_pc,              \* position of wrapper(): "idle", "loop", "returned", "raised"
    attempt,            \* wrapper's loop variable
    delay,              \* wrapper's local delay
    last_exception,     \* wrapper's local last_exception: <<>> is None, <<e>> an error
    sleeps,             \* history: the arguments of the time.sleep calls, in order
    outcomes,           \* history: how each invocation of func ended, in order
    rt_result,          \* history: <<>>, <<"returned", r>> or <<"raised", e>>
    \* ---- resilient_groq_call (app/error_recovery.py)
    g_pc,               \* position of wrapper(): "idle", "waiting" in
                        \*   wait_if_needed, "attempt" in the retry loop
    g_invoked,          \* history: the times at which the wrapped function was
                        \*   invoked, in order
    \* ---- the Story Store, the ledger and the platform
    stories,            \* table `stories`: id -> [posted, quality_ok, is_validated,
                        \*   rejected]; a larger id is
                        \*   a later created_at
    db_today,           \* table `stories`: category -> number of rows posted today
    posting_history,    \* table `posting_history`: the PostingRecords, in order
    ig_posts,           \* history: id -> number of media published on Instagram
                        \*   for the story
    run_posts,          \* history: number of media the current burst has published
    \* ---- hourly_publish_burst (scheduler.py)
    posts_per_hour_max, \* Config.POSTS_PER_HOUR_MAX
    b_pc,               \* position of the burst: "idle", "loop" or "done"
    runs,               \* history: number of bursts started
    articles,           \* the list fetch_rss_articles returned (story ids)
    b_idx,              \* index in articles of the next loop iteration
    published,          \* the burst's local published
    attempts,           \* the burst's local attempts
    posted_categories,  \* the burst's local posted_categories: category -> count
    b_last,             \* history: <<>>, or <<r>> with r what the last iteration of
                        \*   the loop did: how the editor call went, how it ended
    \* ---- ContentSafety (app/content_safety.py)
    sg_input,           \* what the checks find in the content screened: <<>> before
                        \*   the first call, then <<findings>>
    sg_result,          \* history: <<>>, or <<r>> with r how is_safe_to_post ended
    \* ---- AIContentMonitor (scripts/ai_content_monitor.py)
    ai_response,        \* what the scoring call yielded: <<>> before the first call
    ai_decision,        \* history: <<>>, or <<d>> with d what evaluate_content returned
    \* ---- DuplicateDetector (scripts/duplicate_detector.py)
    dd_headline,        \* <<>>, or <<h>> with h the headline of the candidate
    dd_window,          \* recent_stories: for each story of the window, in the order
                        \*   of the query, what _calculate_similarity meets
    dd_result,          \* history: <<>>, or <<r>> with r how is_duplicate ended
    so_texts,           \* <<>>, or <<a, b>> with a and b two texts
    so_overlap,         \* history: <<>>, or what _simple_overlap returned for
                        \*   (a, b) and for (b, a)
    \* ---- post_instagram.main and post_instagram_graph.main
    published_ids,      \* table `stories`: the ids whose column `published` is true
    m_runs,             \* the runs of a posting script so far
    m_last,             \* history: <<>>, or <<r>> with r how the last run of a
                        \*   posting script ended
    \* ---- DiversityManager (app/diversity.py)
    div_candidate,      \* <<>>, or <<t>> with t the text of the candidate
    div_window,         \* <<>>, or <<w>> with w the rows get_recent_posts finds
    div_result,         \* history: <<>>, or <<r>> with r how
                        \*   calculate_diversity_penalty ended
    \* ---- APIKeyManager (app/api_key_manager.py)
    km_keys,            \* APIKeyManager.keys
    current_index,      \* APIKeyManager.current_index
    failed_keys,        \* APIKeyManager.failed_keys
    km_last,            \* history: <<>>, or <<r>> with r the last get_next_key():
                        \*   the key returned and failed_keys before and after
    \* ---- a second hourly_publish_burst, started by /test-hourly-burst (main.py)
    t_pc,               \* its position: "idle", "loop" or "done"
    t_articles,         \* its local articles
    t_idx,              \* the position of its loop in articles
    t_published,        \* its local published
    t_posted_categories,\* its local posted_categories
    loop_owner,         \* the burst that runs, not suspended at an await:
                        \*   "scheduled", "test", or "none"
    pub_by              \* history: story -> the bursts that published it

rlVars == <<max_calls, time_window, calls, admitted, rl_ret, rl_pc, rl_wait>>
cbVars == <<failure_threshold, timeout, failures, last_failure_time, state,
            cb_pc, cb_calls, cb_invoked, cb_last, cb_ret, streak>>
rtVars == <<max_retries, initial_delay, max_delay, exponential_base, exceptions,
            rt_pc, attempt, delay, last_exception, sleeps, outcomes, rt_result,
            g_pc, g_invoked>>
storeVars == <<stories, db_today, posting_history, ig_posts, run_posts>>
bVars == <<posts_per_hour_max, b_pc, runs, articles, b_idx, published, attempts,
           posted_categories, b_last>>
sgVars == <<sg_input, sg_result>>
aiVars == <<ai_response, ai_decision>>
ddVars == <<dd_headline, dd_window, dd_result, so_texts, so_overlap>>
mVars == <<published_ids, m_runs, m_last>>
divVars == <<div_candidate, div_window, div_result>>
kmVars == <<km_keys, current_index, failed_keys, km_last>>
tbVars == <<t_pc, t_articles, t_idx, t_published, t_posted_categories, loop_owner,
            pub_by>>
extVars == <<kmVars, tbVars>>
gateVars == <<sgVars, aiVars, ddVars, mVars, divVars, extVars>>

(***************************************************************************)
(* Bounds of the exploration.                                              *)
(***************************************************************************)
MaxTime == 5            \* the clock runs from 0 to MaxTime
MaxCallsBound == 2      \* max_calls ranges over 1..MaxCallsBound
MaxWindowBound == 3     \* time_window ranges over 1..MaxWindowBound

MaxThreshold == 2       \* failure_threshold ranges over 1..MaxThreshold
MaxTimeout == 2         \* timeout ranges over 0..MaxTimeout
MaxCBCalls == 5         \* call() is invoked at most MaxCBCalls times

MaxRetries == 2         \* max_retries ranges over 0..MaxRetries
MaxDelayBound == 3      \* initial_delay and max_delay range over 1..MaxDelayBound
MaxBase == 2            \* exponential_base ranges over 1..MaxBase

NStories == 5           \* the store holds the stories 1..NStories
MaxRuns == 2            \* at most MaxRuns bursts are started
MaxLostUpdates == 1     \* at most MaxLostUpdates published stories at a time are
                        \*   left unmarked by a failed update of the store
MaxMainRuns == 1        \* at most MaxMainRuns runs of a posting script
MaxDupWindow == 2       \* the lookback window holds at most MaxDupWindow stories
MaxDivWindow == 6       \* get_recent_posts returns at most MaxDivWindow rows

None == "None"

(***************************************************************************)
(* The clock.  Every read of the clock by one handler happens at `now`;    *)
(* time passes between handler steps.                                      *)
(***************************************************************************)
ClockAdvance ==
    /\ now < MaxTime
    /\ now' = now + 1

(***************************************************************************)
(* RateLimiter                                                             *)
(***************************************************************************)

\* The comparison of the pruning comprehension, mutated: a timestamp leaves
\* the window one second early.
InWindowShort(call_time, n, w) == n - call_time < w - 1

\* allow_request: `now - call_time < self.time_window`.
InWindow(call_time, n, w) == n - call_time < w

\* allow_request: the list comprehension that drops the old timestamps.
Prune(cs, n, w) == SelectSeq(cs, LAMBDA call_time : InWindow(call_time, n, w))

\* The capacity test, mutated: `<=` for `<`.
HasCapacityInclusive(cs, mx) == Len(cs) <= mx

\* allow_request and get_wait_time: `len(self.calls) < self.max_calls`.
HasCapacity(cs, mx) == Len(cs) < mx

RLInit ==
    /\ max_calls \in 1..MaxCallsBound
    /\ time_window \in 1..MaxWindowBound
    /\ calls = <<>>
    /\ admitted = <<>>
    /\ rl_ret = <<>>
    /\ rl_pc = "idle"
    /\ rl_wait = <<>>

RLIdle ==
    /\ max_calls = 1
    /\ time_window = 1
    /\ calls = <<>>
    /\ admitted = <<>>
    /\ rl_ret = <<>>
    /\ rl_pc = "idle"
    /\ rl_wait = <<>>

\* The body of allow_request(): prune, then admit if there is capacity.
AllowRequestBody ==
    LET pruned == Prune(calls, now, time_window) IN
    /\ Len(admitted) < (MaxTime + 1) * MaxCallsBound
    /\ IF HasCapacity(pruned, max_calls)
       THEN /\ calls' = Append(pruned, now)
            /\ admitted' = Append(admitted, now)
            /\ rl_ret' = <<TRUE>>
       ELSE /\ calls' = pruned
            /\ admitted' = admitted
            /\ rl_ret' = <<FALSE>>
    /\ rl_wait' = <<>>
    /\ UNCHANGED <<now, max_calls, time_window>>

\* RateLimiter.allow_request(), called by the user of the limiter.
AllowRequest ==
    /\ rl_pc = "idle"
    /\ AllowRequestBody
    /\ UNCHANGED rl_pc

\* RateLimiter.wait_if_needed(): one turn of `while not self.allow_request()`.
\* When the request is refused the method sleeps 0.1 s and tries again; the
\* clock may or may not have moved to the next second by then.
WaitIfNeeded ==
    /\ AllowRequestBody
    /\ rl_pc' = IF rl_ret' = <<TRUE>> THEN "idle" ELSE "waiting"

\* min(self.calls).
MinOf(cs) == CHOOSE t \in {cs[i] : i \in DOMAIN cs} :
                 \A i \in DOMAIN cs : t <= cs[i]

\* get_wait_time, mutated: without the `max(0.0, ...)`.
WaitTimeUnclamped(cs, n, w, mx) ==
    IF HasCapacity(cs, mx) THEN 0 ELSE w - (n - MinOf(cs))

\* get_wait_time: 0 with capacity left in the stored list, else
\* `max(0.0, self.time_window - (time.time() - oldest_call))`.
WaitTime(cs, n, w, mx) ==
    IF HasCapacity(cs, mx) THEN 0
    ELSE IF w - (n - MinOf(cs)) > 0 THEN w - (n - MinOf(cs)) ELSE 0

\* RateLimiter.get_wait_time(): the stored list is read, not pruned.
GetWaitTime ==
    /\ rl_pc = "idle"
    /\ rl_wait' = <<[value |-> WaitTime(calls, now, time_window, max_calls),
                     at |-> now]>>
    /\ UNCHANGED <<now, max_calls, time_window, calls, admitted, rl_ret, rl_pc>>

(***************************************************************************)
(* CircuitBreaker                                                          *)
(*                                                                         *)
(* call(func) is two steps: CBCall runs the code up to the invocation of   *)
(* func (and the whole call when the breaker blocks it); CBFuncReturns and *)
(* CBFuncRaises run the rest once func has returned or raised.  The clock  *)
(* may advance while func runs.                                            *)
(***************************************************************************)

\* The cooldown comparison, mutated: `>=` for `>`.
CooldownElapsedInclusive(n, lft, to) == n - lft >= to

\* The cooldown comparison, mutated: the configured timeout is ignored.
CooldownElapsedNoTimeout(n, lft, to) == n - lft > 0

\* call: `datetime.utcnow() - self.last_failure_time > timedelta(seconds=self.timeout)`.
CooldownElapsed(n, lft, to) == n - lft > to

\* The opening comparison, mutated: `==` for `>=`.
ReachedThresholdExact(f, th) == f = th

\* The opening comparison, mutated: one failure early.
ReachedThresholdEarly(f, th) == f >= th - 1

\* call: `self.failures >= self.failure_threshold`.
ReachedThreshold(f, th) == f >= th

CBInit ==
    /\ failure_threshold \in 1..MaxThreshold
    /\ timeout \in 0..MaxTimeout
    /\ failures = 0
    /\ last_failure_time = <<>>
    /\ state = "CLOSED"
    /\ cb_pc = "idle"
    /\ cb_calls = 0
    /\ cb_invoked = 0
    /\ cb_last = [entry |-> None, at_func |-> None, outcome |-> None]
    /\ cb_ret = <<>>
    /\ streak = 0

CBIdle ==
    /\ failure_threshold = 1
    /\ timeout = 0
    /\ failures = 0
    /\ last_failure_time = <<>>
    /\ state = "CLOSED"
    /\ cb_pc = "idle"
    /\ cb_calls = 0
    /\ cb_invoked = 0
    /\ cb_last = [entry |-> None, at_func |-> None, outcome |-> None]
    /\ cb_ret = <<>>
    /\ streak = 0

\* CircuitBreaker.call(), lines 28-38: the OPEN check, then the invocation of func.
\* With state OPEN and last_failure_time None the subtraction raises TypeError.
CBCall ==
    /\ cb_pc = "idle"
    /\ cb_calls < MaxCBCalls
    /\ cb_calls' = cb_calls + 1
    /\ IF state = "OPEN" /\ last_failure_time = <<>>
       THEN /\ cb_last' = [entry |-> state, at_func |-> None, outcome |-> "TypeError"]
            /\ cb_ret' = <<>>
            /\ UNCHANGED <<state, cb_pc, cb_invoked>>
       ELSE IF state = "OPEN" /\ ~CooldownElapsed(now, last_failure_time[1], timeout)
       THEN /\ cb_last' = [entry |-> state, at_func |-> None, outcome |-> "blocked"]
            /\ cb_ret' = <<FALSE, None>>
            /\ UNCHANGED <<state, cb_pc, cb_invoked>>
       ELSE /\ state' = IF state = "OPEN" THEN "HALF_OPEN" ELSE state
            /\ cb_pc' = "in_func"
            /\ cb_invoked' = cb_invoked + 1
            /\ cb_last' = [entry |-> state,
                           at_func |-> IF state = "OPEN" THEN "HALF_OPEN" ELSE state,
                           outcome |-> "running"]
            /\ cb_ret' = <<>>
    /\ UNCHANGED <<now, failure_threshold, timeout, failures, last_failure_time, streak>>

\* CircuitBreaker.call(), lines 38-46: func returned a result.
CBFuncReturns ==
    /\ cb_pc = "in_func"
    /\ IF state = "HALF_OPEN"
       THEN /\ state' = "CLOSED"
            /\ failures' = 0
       ELSE UNCHANGED <<state, failures>>
    /\ cb_pc' = "idle"
    /\ cb_last' = [cb_last EXCEPT !.outcome = "ok"]
    /\ cb_ret' = <<TRUE, "result">>
    /\ streak' = 0
    /\ UNCHANGED <<now, failure_threshold, timeout, last_failure_time, cb_calls, cb_invoked>>

\* The classes of the errors func may raise: one derived from Exception, one
\* derived from BaseException only.
FuncErrors == {"ValueError", "KeyboardInterrupt"}

\* What cb_last keeps of an error raised by func: "raised" for an error
\* derived from Exception, "raised_base" for any other.
RaisedOutcome(kind) ==
    IF kind = "KeyboardInterrupt" THEN "raised_base" ELSE "raised"

\* The except clause of call, mutated: a bare `except:`.
IsExceptionOrBase(kind) == TRUE

\* call: `except Exception as e:`, whether the clause catches the error.
IsException(kind) == kind \notin {"KeyboardInterrupt", "SystemExit", "GeneratorExit"}

\* CircuitBreaker.call(): func raised an error that the except clause does
\* not catch.  The error leaves call(); nothing of the breaker is written.
CBFuncRaisesUncaught ==
    /\ cb_pc = "in_func"
    /\ \E kind \in FuncErrors :
          /\ ~IsException(kind)
          /\ cb_last' = [cb_last EXCEPT !.outcome = RaisedOutcome(kind)]
    /\ cb_pc' = "idle"
    /\ cb_ret' = <<>>
    /\ UNCHANGED <<now, failure_threshold, timeout, failures, last_failure_time,
                   state, cb_calls, cb_invoked, streak>>

\* CircuitBreaker.call(), lines 48-58: func raised an error that the except
\* clause catches.
CBFuncRaises ==
    /\ cb_pc = "in_func"
    /\ \E kind \in FuncErrors :
          /\ IsException(kind)
          /\ cb_last' = [cb_last EXCEPT !.outcome = RaisedOutcome(kind)]
    /\ failures' = failures + 1
    /\ last_failure_time' = <<now>>
    /\ state' = IF ReachedThreshold(failures + 1, failure_threshold) THEN "OPEN" ELSE state
    /\ cb_pc' = "idle"
    /\ cb_ret' = <<FALSE, None>>
    /\ streak' = streak + 1
    /\ UNCHANGED <<now, failure_threshold, timeout, cb_calls, cb_invoked>>

\* CircuitBreaker.reset().
CBReset ==
    /\ cb_pc = "idle"
    /\ failures' = 0
    /\ state' = "CLOSED"
    /\ last_failure_time' = <<>>
    /\ cb_last' = [entry |-> None, at_func |-> None, outcome |-> "reset"]
    /\ cb_ret' = <<>>
    /\ streak' = 0
    /\ UNCHANGED <<now, failure_threshold, timeout, cb_pc, cb_calls, cb_invoked>>

(***************************************************************************)
(* retry_with_backoff                                                      *)
(*                                                                         *)
(* One call of wrapper(): RetryCall enters it, and each further step is    *)
(* one iteration of its for loop, func returning or raising in it.  An     *)
(* outcome of func is a record [kind, at]: kind is "ok" or the class of    *)
(* the error raised, at the attempt that produced it.  Delays are whole    *)
(* seconds.                                                                *)
(***************************************************************************)

\* The classes of error func may raise.
ErrorKinds == {"ValueError", "ConnectionError"}

Min(a, b) == IF a <= b THEN a ELSE b

\* The loop's range, mutated: one attempt too many.
AttemptsOneMore(n) == n + 2

\* wrapper: `range(max_retries + 1)`, the number of iterations of the loop.
Attempts(n) == n + 1

\* The except clause, mutated: it catches every error.
CatchesAll(kind, excs) == TRUE

\* wrapper: `except exceptions as e`, whether the clause catches an error of
\* class kind.
Catches(kind, excs) == kind \in excs

\* wrapper: `delay = min(delay * exponential_base, max_delay)`.
NextDelay(d, base, mx) == Min(d * base, mx)

RTInit ==
    /\ max_retries \in 0..MaxRetries
    /\ initial_delay \in 1..MaxDelayBound
    /\ max_delay \in 1..MaxDelayBound
    /\ exponential_base \in 1..MaxBase
    /\ exceptions \in SUBSET ErrorKinds
    /\ rt_pc = "idle"
    /\ attempt = 0
    /\ delay = 0
    /\ last_exception = <<>>
    /\ sleeps = <<>>
    /\ outcomes = <<>>
    /\ rt_result = <<>>
    /\ g_pc = "idle"
    /\ g_invoked = <<>>

RTIdle ==
    /\ max_retries = 0
    /\ initial_delay = 1
    /\ max_delay = 1
    /\ exponential_base = 1
    /\ exceptions = ErrorKinds
    /\ rt_pc = "idle"
    /\ attempt = 0
    /\ delay = 0
    /\ last_exception = <<>>
    /\ sleeps = <<>>
    /\ outcomes = <<>>
    /\ rt_result = <<>>
    /\ g_pc = "idle"
    /\ g_invoked = <<>>

rtParams == <<max_retries, initial_delay, max_delay, exponential_base, exceptions,
              g_pc, g_invoked>>

\* wrapper(), lines 88-91: the locals are set and the loop is entered.
RetryCall ==
    /\ rt_pc = "idle"
    /\ delay' = initial_delay
    /\ last_exception' = <<>>
    /\ attempt' = 0
    /\ rt_pc' = "loop"
    /\ UNCHANGED <<now, rtParams, sleeps, outcomes, rt_result>>

\* wrapper(), lines 92-98: func returns in this iteration, and so does wrapper.
RetryFuncReturns ==
    /\ rt_pc = "loop"
    /\ attempt < Attempts(max_retries)
    /\ LET r == [kind |-> "ok", at |-> attempt] IN
       /\ outcomes' = Append(outcomes, r)
       /\ rt_result' = <<"returned", r>>
    /\ rt_pc' = "returned"
    /\ UNCHANGED <<now, rtParams, attempt, delay, last_exception, sleeps>>

\* wrapper(), lines 92-116: func raises in this iteration.  A caught error is
\* kept, slept on if attempt < max_retries, and re-raised once the loop is
\* over; an error the clause does not catch leaves wrapper at once.
RetryFuncRaises ==
    /\ rt_pc = "loop"
    /\ attempt < Attempts(max_retries)
    /\ \E kind \in ErrorKinds :
        LET e == [kind |-> kind, at |-> attempt] IN
        /\ outcomes' = Append(outcomes, e)
        /\ IF Catches(kind, exceptions)
           THEN /\ last_exception' = <<e>>
                /\ IF attempt < max_retries
                   THEN /\ sleeps' = Append(sleeps, delay)
                        /\ delay' = NextDelay(delay, exponential_base, max_delay)
                   ELSE UNCHANGED <<sleeps, delay>>
                /\ attempt' = attempt + 1
                /\ IF attempt + 1 < Attempts(max_retries)
                   THEN UNCHANGED <<rt_pc, rt_result>>
                   ELSE /\ rt_pc' = "raised"
                        /\ rt_result' = <<"raised", e>>
           ELSE /\ rt_pc' = "raised"
                /\ rt_result' = <<"raised", e>>
                /\ UNCHANGED <<last_exception, sleeps, delay, attempt>>
    /\ UNCHANGED <<now, rtParams>>

(***************************************************************************)
(* resilient_groq_call                                                     *)
(*                                                                         *)
(* wrapper() waits on groq_rate_limiter, then runs protected_call under    *)
(* retry_with_backoff; protected_call hands the wrapped function to        *)
(* groq_circuit_breaker.call and raises when that returns success = False. *)
(* The limiter, the breaker and the retry loop are the ones modelled       *)
(* above, with the arguments of lines 227-241 scaled down: the window is   *)
(* shorter than the breaker's timeout and longer than the retry delay, as  *)
(* 60 s is to 300 s and to 2 s.  The wrapped function returns or raises at *)
(* the time it is invoked; time.sleep(delay) moves the clock by delay.     *)
(***************************************************************************)

GroqMaxCalls == 2           \* groq_rate_limiter.max_calls, 30 in the source
GroqTimeWindow == 3         \* groq_rate_limiter.time_window, 60 in the source
GroqFailureThreshold == 2   \* groq_circuit_breaker.failure_threshold, 5 in the source
GroqTimeout == 4            \* groq_circuit_breaker.timeout, 300 in the source
GroqMaxRetries == 1         \* max_retries of protected_call, 3 in the source
GroqInitialDelay == 1       \* initial_delay of protected_call, 2.0 in the source
GroqMaxDelay == 3           \* max_delay of protected_call, 60.0 in the source
GroqBase == 2               \* exponential_base of protected_call
MaxGroqInvocations == 4     \* the wrapped function is invoked at most this often

\* The module globals of lines 227-229 and the locals of wrapper().
GroqInit ==
    /\ max_calls = GroqMaxCalls
    /\ time_window = GroqTimeWindow
    /\ calls = <<>>
    /\ admitted = <<>>
    /\ rl_ret = <<>>
    /\ rl_pc = "idle"
    /\ rl_wait = <<>>
    /\ failure_threshold = GroqFailureThreshold
    /\ timeout = GroqTimeout
    /\ failures = 0
    /\ last_failure_time = <<>>
    /\ state = "CLOSED"
    /\ cb_pc = "idle"
    /\ cb_calls = 0
    /\ cb_invoked = 0
    /\ cb_last = [entry |-> None, at_func |-> None, outcome |-> None]
    /\ cb_ret = <<>>
    /\ streak = 0
    /\ max_retries = GroqMaxRetries
    /\ initial_delay = GroqInitialDelay
    /\ max_delay = GroqMaxDelay
    /\ exponential_base = GroqBase
    /\ exceptions = ErrorKinds
    /\ rt_pc = "idle"
    /\ attempt = 0
    /\ delay = 0
    /\ last_exception = <<>>
    /\ sleeps = <<>>
    /\ outcomes = <<>>
    /\ rt_result = <<>>
    /\ g_pc = "idle"
    /\ g_invoked = <<>>

\* wrapper(), line 238: one turn of the loop of wait_if_needed; once the
\* request is admitted the retry loop of protected_call is entered.
GroqWait ==
    /\ g_pc \in {"idle", "waiting"}
    /\ AllowRequestBody
    /\ IF rl_ret' = <<TRUE>>
       THEN /\ g_pc' = "attempt"
            /\ attempt' = 0
            /\ delay' = initial_delay
       ELSE /\ g_pc' = "waiting"
            /\ UNCHANGED <<attempt, delay>>
    /\ UNCHANGED <<rl_pc, cbVars, max_retries, initial_delay, max_delay,
                   exponential_base, exceptions, rt_pc, last_exception, sleeps,
                   outcomes, rt_result, g_invoked>>

\* protected_call raised in this attempt: retry_with_backoff sleeps and
\* tries again, or re-raises after the last attempt.
GroqRetry ==
    IF attempt < max_retries
    THEN /\ now + delay <= MaxTime
         /\ now' = now + delay
         /\ sleeps' = Append(sleeps, delay)
         /\ delay' = NextDelay(delay, exponential_base, max_delay)
         /\ attempt' = attempt + 1
         /\ g_pc' = "attempt"
    ELSE /\ g_pc' = "idle"
         /\ UNCHANGED <<now, sleeps, delay, attempt>>

\* One attempt of protected_call: groq_circuit_breaker.call(func) blocks
\* the call, or invokes func, which returns or raises an Exception.
GroqAttempt ==
    /\ g_pc = "attempt"
    /\ IF state = "OPEN" /\ ~CooldownElapsed(now, last_failure_time[1], timeout)
       THEN /\ GroqRetry
            /\ UNCHANGED <<state, failures, last_failure_time, g_invoked>>
       ELSE /\ Len(g_invoked) < MaxGroqInvocations
            /\ g_invoked' = Append(g_invoked, now)
            /\ \E func_ok \in BOOLEAN :
                 IF func_ok
                 THEN /\ IF state \in {"OPEN", "HALF_OPEN"}
                         THEN state' = "CLOSED" /\ failures' = 0
                         ELSE UNCHANGED <<state, failures>>
                      /\ g_pc' = "idle"
                      /\ UNCHANGED <<now, last_failure_time, sleeps, delay, attempt>>
                 ELSE /\ failures' = failures + 1
                      /\ last_failure_time' = <<now>>
                      /\ state' = IF ReachedThreshold(failures + 1, failure_threshold)
                                  THEN "OPEN"
                                  ELSE IF state = "OPEN" THEN "HALF_OPEN" ELSE state
                      /\ GroqRetry
    /\ UNCHANGED <<rlVars, failure_threshold, timeout, cb_pc, cb_calls, cb_invoked,
                   cb_last, cb_ret, streak, max_retries, initial_delay, max_delay,
                   exponential_base, exceptions, rt_pc, last_exception, outcomes,
                   rt_result>>

(***************************************************************************)
(* The Story Store and hourly_publish_burst                                *)
(*                                                                         *)
(* A burst is BurstStart (the two reads of the store) followed by one      *)
(* BurstIterate per iteration of the loop over the fetched articles; the   *)
(* iteration that leaves the loop also ends the burst.  A story is its id  *)
(* and what the burst reads of it: `posted`, and quality_ok, the value of  *)
(* relaxed_quality_filter on its content, age and title.                   *)
(***************************************************************************)

\* Config.POSTS_PER_HOUR_MAX.
POSTS_PER_HOUR_MAX == 3

\* Config.DAILY_CAP (and MAX_POSTS_PER_DAY, which is set to it).
DAILY_CAP == 25

\* hourly_publish_burst: `fetch_rss_articles(limit=25)`.
FetchLimit == 25

\* hourly_publish_burst: `len(posted_categories) > 10`.
DiversityEnforceAfter == 10

\* Config.CONTENT_CATEGORIES.
CONTENT_CATEGORIES ==
    {"politics", "economy", "sports", "international", "technology",
     "entertainment", "society", "general"}

\* Config.CATEGORY_MIN_POSTS_PER_DAY.
CATEGORY_MIN_POSTS_PER_DAY ==
    [c \in CONTENT_CATEGORIES |->
        CASE c = "politics" -> 4
          [] c = "economy" -> 3
          [] c = "sports" -> 3
          [] c = "international" -> 3
          [] c = "technology" -> 2
          [] c = "entertainment" -> 2
          [] c = "society" -> 2
          [] c = "general" -> 5]

StoryIds == 1..NStories

NoCategories == [c \in CONTENT_CATEGORIES |-> 0]

\* The categories an editor response may name; "gossip" is none of
\* Config.CONTENT_CATEGORIES.
ResponseCategories == {"technology", "general", "gossip"}

\* What the GROQ editor call may yield: no client (no API key), an exception,
\* text that is not valid JSON, or a JSON object with its fields.
EditorResponses ==
    {[kind |-> k, approved |-> TRUE, category |-> "general"] :
        k \in {"no_client", "exception", "bad_json"}}
    \cup [kind : {"json"}, approved : BOOLEAN, category : ResponseCategories]

\* ContentEditor._parse_validation_result: the parsed fields, or the
\* defaults on a JSON error.
ParseValidationResult(resp) ==
    IF resp.kind = "bad_json"
    THEN [approved |-> TRUE, category |-> "general"]
    ELSE [approved |-> resp.approved,
          category |-> IF resp.category \in CONTENT_CATEGORIES
                       THEN resp.category ELSE "general"]

\* ContentEditor.validate_content (validate_article): should_publish and
\* category.
ValidateContent(resp) ==
    IF resp.kind \in {"no_client", "exception"}
    THEN [should_publish |-> TRUE, category |-> "general"]
    ELSE LET result == ParseValidationResult(resp) IN
         [should_publish |-> result.approved, category |-> result.category]

\* What validate_article may return, over all the editor responses.
EditorVerdicts == {ValidateContent(resp) : resp \in EditorResponses}

RECURSIVE SumOver(_, _)
SumOver(f, S) ==
    IF S = {} THEN 0
    ELSE LET c == CHOOSE x \in S : TRUE IN f[c] + SumOver(f, S \ {c})

\* len(posted_categories).
TotalPosted(pc) == SumOver(pc, CONTENT_CATEGORIES)

\* ContentEditor.get_category_balance: the keys of needs_more.
NeedsMore(pc) == {c \in CONTENT_CATEGORIES : pc[c] < CATEGORY_MIN_POSTS_PER_DAY[c]}

\* hourly_publish_burst, lines 391-396: the diversity skip.
DiversitySkip(pc, category) ==
    /\ NeedsMore(pc) # {}
    /\ category \notin NeedsMore(pc)
    /\ TotalPosted(pc) > DiversityEnforceAfter

RECURSIVE Descending(_)
\* The ids of S, latest created first.
Descending(S) ==
    IF S = {} THEN <<>>
    ELSE LET m == CHOOSE x \in S : \A y \in S : y <= x
         IN <<m>> \o Descending(S \ {m})

\* fetch_rss_articles: the unposted stories, latest first, at most `limit`.
FetchArticles(st, limit) ==
    LET all == Descending({i \in StoryIds : ~st[i].posted})
    IN SubSeq(all, 1, Min(limit, Len(all)))

\* The cap test of the burst, mutated: `>` for `>=`.
CapReachedLate(p, cap) == p > cap

\* hourly_publish_burst: `published >= Config.POSTS_PER_HOUR_MAX`.
CapReached(p, cap) == p >= cap

\* The day's posts before the first burst: none; eleven, all technology; or
\* one less than Config.DAILY_CAP, all general.
TodayScenarios ==
    {NoCategories,
     [NoCategories EXCEPT !["technology"] = DiversityEnforceAfter + 1],
     [NoCategories EXCEPT !["general"] = DAILY_CAP - 1]}

\* The columns is_validated and rejected of the stories, as validation at
\* ingest (fetch_news, batch_validator) leaves them: story 1 was rejected,
\* story 2 is not validated yet, story 3 was rejected and then validated by
\* the fallback validation of fetch_news, the others were validated.
IsValidated(i) == i \notin {1, 2}
Rejected(i) == i \in {1, 3}

StoreInit ==
    /\ \E low \in {{}, {NStories - 1}} :
          stories = [i \in StoryIds |->
                        [posted |-> FALSE, quality_ok |-> i \notin low,
                         is_validated |-> IsValidated(i), rejected |-> Rejected(i)]]
    /\ db_today \in TodayScenarios
    /\ posting_history = <<>>
    /\ ig_posts = [i \in StoryIds |-> 0]
    /\ run_posts = 0

StoreIdle ==
    /\ stories = [i \in StoryIds |->
                     [posted |-> FALSE, quality_ok |-> TRUE,
                      is_validated |-> TRUE, rejected |-> FALSE]]
    /\ db_today = NoCategories
    /\ posting_history = <<>>
    /\ ig_posts = [i \in StoryIds |-> 0]
    /\ run_posts = 0

BInit ==
    /\ posts_per_hour_max \in 2..POSTS_PER_HOUR_MAX
    /\ b_pc = "idle"
    /\ runs = 0
    /\ articles = <<>>
    /\ b_idx = 1
    /\ published = 0
    /\ attempts = 0
    /\ posted_categories = NoCategories
    /\ b_last = <<>>

BIdle ==
    /\ posts_per_hour_max = POSTS_PER_HOUR_MAX
    /\ b_pc = "idle"
    /\ runs = 0
    /\ articles = <<>>
    /\ b_idx = 1
    /\ published = 0
    /\ attempts = 0
    /\ posted_categories = NoCategories
    /\ b_last = <<>>

\* hourly_publish_burst, lines 333-356: the day's categories and the
\* candidates are read; each read yields the empty list when the store fails.
BurstStart ==
    /\ b_pc \in {"idle", "done"}
    /\ runs < MaxRuns
    /\ runs' = runs + 1
    /\ \E cats_ok \in BOOLEAN, fetch_ok \in BOOLEAN :
        /\ posted_categories' = IF cats_ok THEN db_today ELSE NoCategories
        /\ articles' = IF fetch_ok THEN FetchArticles(stories, FetchLimit) ELSE <<>>
    /\ b_pc' = IF articles' = <<>> THEN "done" ELSE "loop"
    /\ published' = 0
    /\ attempts' = 0
    /\ b_idx' = 1
    /\ b_last' = <<>>
    /\ run_posts' = 0
    /\ UNCHANGED <<now, posts_per_hour_max, stories, db_today, posting_history, ig_posts>>

\* The published stories whose update in the store failed.
LostUpdates == {i \in StoryIds : ~stories[i].posted /\ ig_posts[i] > 0}

\* The iteration ends with `continue`, or falls off its end: the next
\* iteration follows, or the loop is over and the burst ends.
BurstContinue ==
    /\ b_idx' = b_idx + 1
    /\ b_pc' = IF b_idx + 1 > Len(articles) THEN "done" ELSE "loop"

\* hourly_publish_burst, mutated: the verdict of validate_article is not
\* consulted.
EditorRejectsNever(verdict) == FALSE

\* hourly_publish_burst: `if not should_publish:`, after validate_article.
EditorRejects(verdict) == ~verdict.should_publish

\* hourly_publish_burst, lines 358-414: the functions an iteration calls on
\* its candidate, in the order of the calls, up to the one that ends it.
BurstStages(outcome) ==
    CASE outcome = "filtered" -> <<"relaxed_quality_filter">>
      [] outcome = "rejected" -> <<"relaxed_quality_filter", "validate_article">>
      [] outcome = "skipped" ->
            <<"relaxed_quality_filter", "validate_article", "get_category_balance">>
      [] OTHER ->
            <<"relaxed_quality_filter", "validate_article", "get_category_balance",
              "publish_instagram_graph">>

\* hourly_publish_burst, lines 358-430, with publish_instagram_graph: one
\* iteration of the loop.
BurstIterate ==
    /\ b_pc = "loop"
    /\ b_idx <= Len(articles)
    /\ attempts' = attempts + 1
    /\ LET id == articles[b_idx] IN
       \E resp \in EditorResponses, pub_ok \in BOOLEAN, db_ok \in BOOLEAN :
          LET verdict == ValidateContent(resp)
              category == verdict.category
              outcome ==
                  IF ~stories[id].quality_ok THEN "filtered"
                  ELSE IF EditorRejects(verdict) THEN "rejected"
                  ELSE IF DiversitySkip(posted_categories, category) THEN "skipped"
                  ELSE IF ~pub_ok THEN "publish_failed"
                  ELSE "published"
              editor ==
                  IF outcome = "filtered" THEN "not_called"
                  ELSE IF resp.kind = "json" THEN "answered" ELSE "failed"
          IN
          /\ b_last' = <<[editor |-> editor,
                          approved |-> editor # "not_called" /\ verdict.should_publish,
                          outcome |-> outcome,
                          stages |-> BurstStages(outcome)]>>
          /\ IF outcome # "published"
             THEN /\ BurstContinue
                  /\ UNCHANGED <<storeVars, published, posted_categories>>
             ELSE /\ ig_posts' = [ig_posts EXCEPT ![id] = @ + 1]
                  /\ run_posts' = run_posts + 1
                  /\ IF db_ok
                     THEN /\ stories' = [stories EXCEPT ![id].posted = TRUE]
                          /\ db_today' = [db_today EXCEPT ![category] = @ + 1]
                     ELSE /\ Cardinality(LostUpdates \cup {id}) <= MaxLostUpdates
                          /\ UNCHANGED <<stories, db_today>>
                  /\ published' = published + 1
                  /\ posted_categories' = [posted_categories EXCEPT ![category] = @ + 1]
                  /\ IF CapReached(published + 1, posts_per_hour_max)
                     THEN b_pc' = "done" /\ b_idx' = b_idx
                     ELSE BurstContinue
                  /\ UNCHANGED posting_history
    /\ UNCHANGED <<now, posts_per_hour_max, runs, articles>>

(***************************************************************************)
(* ContentSafety and is_safe_to_post (app/content_safety.py)               *)
(*                                                                         *)
(* The content screened is what the checks find in it: which families of   *)
(* patterns match its text, how many clickbait patterns match its          *)
(* headline, the share of capitals of the headline, and so on.  A severity *)
(* is a number of hundredths.  A call ends as <<"returned", value>> or as  *)
(* <<"raised", error>>.                                                    *)
(***************************************************************************)

\* The methods the class ContentSafety defines.
ContentSafetyMethods ==
    {"__init__", "_load_custom_patterns", "check_hate_speech",
     "check_content_grade", "_ai_check_sensitivity", "check_clickbait",
     "check_spam", "check_explicit_content", "check_source_reliability",
     "check_caps_spam", "check_excessive_punctuation", "comprehensive_check",
     "get_safety_score"}

\* `self.<name>`: the lookup of a method on a ContentSafety object, which
\* raises AttributeError when the class does not define it.
HasMethod(name) == name \in ContentSafetyMethods

\* What the checks find in one piece of content.
Findings ==
    [hate : BOOLEAN,          \* a HATE_KEYWORDS pattern matches the text
     grade : BOOLEAN,         \* a HIGH_GRADE_PATTERNS pattern matches the text
     ai : {0, 80},            \* the intensity an AI evaluation gives the text
     misinfo : BOOLEAN,       \* a MISINFO_PATTERNS pattern matches the text
     explicit : BOOLEAN,      \* an EXPLICIT_KEYWORDS pattern matches the text
     spam : BOOLEAN,          \* a SPAM_PATTERNS pattern matches the text
     unreliable : BOOLEAN,    \* the source is one of UNRELIABLE_SOURCES
     clickbait : 0..2,        \* CLICKBAIT_PATTERNS matching the headline
     caps : {0, 60},          \* capitals of the headline, percent
     punct : BOOLEAN]         \* more than 3 of `!` and `?` in the headline

Max(a, b) == IF a >= b THEN a ELSE b

RECURSIVE MaxOf(_)
\* max(severity_scores), and 0 for the empty list.
MaxOf(q) == IF q = <<>> THEN 0 ELSE Max(q[1], MaxOf(Tail(q)))

\* check_content_grade: `ai_intensity = self._ai_evaluate_grade(text)`, the
\* AI intensity call.
AIEvaluateGrade(f) ==
    IF ~HasMethod("_ai_evaluate_grade")
    THEN <<"raised", "AttributeError">>
    ELSE <<"returned", f.ai>>

\* check_content_grade(text, use_ai=True): needs_filtering and intensity.
\* Nothing catches what the AI intensity call raises.
CheckContentGrade(f) ==
    LET ai_intensity == AIEvaluateGrade(f) IN
    IF ai_intensity[1] = "raised"
    THEN ai_intensity
    ELSE LET flagged == ai_intensity[2] > 70 IN
         <<"returned",
           [needs_filter |-> flagged \/ f.grade,
            reasons |-> (IF flagged THEN 1 ELSE 0) + (IF f.grade THEN 1 ELSE 0),
            intensity |-> Max(IF flagged THEN f.ai ELSE 0,
                              IF f.grade THEN 80 ELSE 0)]>>

\* check_clickbait: `min(matches / 2, 1.0)`, and `severity > 0.3`.
ClickbaitSeverity(f) == Min(f.clickbait * 50, 100)

\* ContentSafety.comprehensive_check.
ComprehensiveCheck(f) ==
    LET grade == CheckContentGrade(f) IN
    IF grade[1] = "raised" THEN grade
    ELSE IF ~HasMethod("check_misinformation")
    THEN <<"raised", "AttributeError">>
    ELSE
    LET g == grade[2]
        violations == (IF f.hate THEN 1 ELSE 0)
                      + (IF g.needs_filter THEN g.reasons ELSE 0)
                      + (IF f.misinfo THEN 1 ELSE 0)
                      + (IF f.explicit THEN 1 ELSE 0)
                      + (IF f.spam THEN 1 ELSE 0)
        is_clickbait == ClickbaitSeverity(f) > 30
        has_caps_spam == f.caps > 50
        warnings == (IF f.unreliable THEN 1 ELSE 0)
                    + (IF is_clickbait THEN 1 ELSE 0)
                    + (IF has_caps_spam THEN 1 ELSE 0)
                    + (IF f.punct THEN 1 ELSE 0)
        severity_scores ==
            (IF f.hate THEN <<100>> ELSE <<>>)
            \o (IF g.needs_filter THEN <<g.intensity>> ELSE <<>>)
            \o (IF f.misinfo THEN <<90>> ELSE <<>>)
            \o (IF f.explicit THEN <<80>> ELSE <<>>)
            \o (IF f.spam THEN <<70>> ELSE <<>>)
            \o (IF f.unreliable THEN <<60>> ELSE <<>>)
            \o (IF is_clickbait THEN <<ClickbaitSeverity(f) \div 2>> ELSE <<>>)
            \o (IF has_caps_spam THEN <<(f.caps * 4) \div 10>> ELSE <<>>)
            \o (IF f.punct THEN <<30>> ELSE <<>>)
        overall_severity == MaxOf(severity_scores)
        is_safe == violations = 0
    IN <<"returned",
         [safe |-> is_safe,
          violations |-> violations,
          warnings |-> warnings,
          severity |-> overall_severity,
          should_post |-> is_safe /\ overall_severity < 70]>>

\* ContentSafety.get_safety_score: the score.
GetSafetyScore(f) ==
    LET check == ComprehensiveCheck(f) IN
    IF check[1] = "raised" THEN check
    ELSE LET result == check[2]
             warning_penalty == IF result.warnings > 0
                                THEN Min(result.warnings * 15, 40) ELSE 0
             severity_penalty == IF result.severity > 0
                                 THEN (result.severity * 30) \div 100 ELSE 0
         IN IF ~result.safe
            THEN <<"returned", 0>>
            ELSE <<"returned", Max(0, 100 - warning_penalty - severity_penalty)>>

\* is_safe_to_post: should_post and safety_score.
IsSafeToPost(f) ==
    LET check == ComprehensiveCheck(f)
        score == GetSafetyScore(f)
    IN IF check[1] = "raised" THEN check
       ELSE IF score[1] = "raised" THEN score
       ELSE <<"returned",
              [should_post |-> check[2].should_post /\ score[2] >= 60,
               safety_score |-> score[2]]>>

\* One piece of content is screened: comprehensive_check, get_safety_score
\* and is_safe_to_post are each called on it.
ScreenContent ==
    /\ sg_input # <<>>
    /\ sg_result = <<>>
    /\ LET f == sg_input[1] IN
       sg_result' = <<[check |-> ComprehensiveCheck(f),
                       score |-> GetSafetyScore(f),
                       post |-> IsSafeToPost(f)]>>
    /\ UNCHANGED <<now, sg_input>>

\* The content to screen is any content.
SGInit ==
    /\ sg_input \in {<<f>> : f \in Findings}
    /\ sg_result = <<>>

(***************************************************************************)
(* AIContentMonitor (scripts/ai_content_monitor.py)                        *)
(*                                                                         *)
(* The weighted sum of _parse_ai_response is computed in Python floats,    *)
(* IEEE-754 doubles.  Every double that occurs is a whole number of units  *)
(* of 2^-56 below 2^63 units; it is written here in base 2^20, as the four *)
(* digits <<n3, n2, n1, n0>>.  A product or a sum is computed exactly and  *)
(* then rounded to 53 significant bits, ties to even, as the hardware      *)
(* does.                                                                   *)
(***************************************************************************)

\* The base of the digits of a double: 2^20.
Limb == 1048576

\* The float literals 0.40, 0.30, 0.20 and 0.10, in units of 2^-56:
\* 0x1.999999999999ap-2, 0x1.3333333333333p-2, 0x1.999999999999ap-3 and
\* 0x1.999999999999ap-4.
WeightIntegrity == <<0, 26214, 419430, 419432>>
WeightNewsValue == <<0, 19660, 838860, 838860>>
WeightQuality == <<0, 13107, 209715, 209716>>
WeightAudience == <<0, 6553, 629145, 629146>>

\* The digits a3..a0, each possibly past the base, with the carries done.
Carried(a3, a2, a1, a0) ==
    LET b1 == a1 + (a0 \div Limb)
        b2 == a2 + (b1 \div Limb)
        b3 == a3 + (b2 \div Limb)
    IN <<b3, b2 % Limb, b1 % Limb, a0 % Limb>>

\* The number of bits of a digit.
BitLen(n) == CHOOSE k \in 0..20 : n < 2^k /\ (k = 0 \/ 2^(k - 1) <= n)

\* The number of bits of a double's units.
BitLength(x) ==
    IF x[1] > 0 THEN 60 + BitLen(x[1])
    ELSE IF x[2] > 0 THEN 40 + BitLen(x[2])
    ELSE IF x[3] > 0 THEN 20 + BitLen(x[3])
    ELSE BitLen(x[4])

\* An exact result rounded to the nearest double, ties to even.
RoundDouble(x) ==
    IF BitLength(x) <= 53 THEN x
    ELSE LET p == 2^(BitLength(x) - 53)
             r == x[4] % p
             odd == (x[4] \div p) % 2 = 1
             down == <<x[1], x[2], x[3], x[4] - r>>
         IN IF 2 * r > p \/ (2 * r = p /\ odd)
            THEN Carried(down[1], down[2], down[3], down[4] + p)
            ELSE down

\* `k * w` for an int k and a float w.
FloatMul(k, w) == RoundDouble(Carried(k * w[1], k * w[2], k * w[3], k * w[4]))

\* `x + y` for floats x and y.
FloatAdd(x, y) == RoundDouble(Carried(x[1] + y[1], x[2] + y[2], x[3] + y[3], x[4] + y[4]))

\* `int(x)` for a float x that is not negative: 2^56 units are 1.
FloatToInt(x) == x[1] * 16 + (x[2] \div 65536)

\* _parse_ai_response: overall_score.
OverallScore(integrity, news_value, quality, audience) ==
    FloatToInt(
        FloatAdd(FloatAdd(FloatAdd(FloatMul(integrity, WeightIntegrity),
                                   FloatMul(news_value, WeightNewsValue)),
                          FloatMul(quality, WeightQuality)),
                 FloatMul(audience, WeightAudience)))

\* The sub-scores a response may carry.
ScoreSamples == {0, 50, 59, 60, 62, 80, 86, 90, 94, 100}

\* A field of the JSON object: <<>> when the object lacks it, <<v>> otherwise.
ScoreFields == {<<>>} \cup {<<v>> : v \in ScoreSamples}

NoFields == [integrity_score |-> <<>>, news_value_score |-> <<>>,
             quality_score |-> <<>>, audience_score |-> <<>>]

\* What the call of the scoring service may yield: an HTTP error status, any
\* other exception (no key, timeout, a reply without `choices`), a text
\* without a `{` or without a `}`, a text whose braces do not hold valid
\* JSON, an object with a field that is not a number, or an object with
\* some of the four sub-scores.
AIResponses ==
    {[kind |-> k, data |-> NoFields] :
        k \in {"http_error", "exception", "no_json", "bad_json", "non_numeric"}}
    \cup {[kind |-> "json", data |-> d] :
            d \in [integrity_score : ScoreFields, news_value_score : ScoreFields,
                   quality_score : ScoreFields, audience_score : ScoreFields]}

\* The default of a missing sub-score, mutated: 100 for 0.
GetScoreLenient(data, field) == IF data[field] = <<>> THEN 100 ELSE data[field][1]

\* _parse_ai_response: `data.get(field, 0)`.
GetScore(data, field) == IF data[field] = <<>> THEN 0 ELSE data[field][1]

\* AIContentMonitor._rejection_fallback.
RejectionFallback ==
    [should_publish |-> FALSE, score |-> 0, ethics_score |-> 0,
     engagement_score |-> 0, reasoning |-> "AI evaluation failed"]

\* _parse_ai_response, mutated: the reasonings of the integrity and of the
\* news-value override exchanged.
OverrideReasoningSwapped(integrity, news_value, overall_score) ==
    IF integrity < 60 THEN "Insufficient news value"
    ELSE IF news_value < 60 THEN "Failed integrity check"
    ELSE IF overall_score < 70 THEN "Below quality threshold"
    ELSE "reasoning of the response"

\* _parse_ai_response, lines 254-262: the reasoning of the decision, which is
\* the one of the response unless a threshold overrides it.
OverrideReasoning(integrity, news_value, overall_score) ==
    IF integrity < 60 THEN "Failed integrity check"
    ELSE IF news_value < 60 THEN "Insufficient news value"
    ELSE IF overall_score < 70 THEN "Below quality threshold"
    ELSE "reasoning of the response"

\* AIContentMonitor._parse_ai_response.
ParseAIResponse(resp) ==
    IF resp.kind = "no_json" THEN RejectionFallback
    ELSE IF resp.kind \in {"bad_json", "non_numeric"} THEN RejectionFallback
    ELSE
    LET integrity == GetScore(resp.data, "integrity_score")
        news_value == GetScore(resp.data, "news_value_score")
        quality == GetScore(resp.data, "quality_score")
        audience == GetScore(resp.data, "audience_score")
        overall_score == OverallScore(integrity, news_value, quality, audience)
        should_publish == overall_score >= 70 /\ integrity >= 60 /\ news_value >= 60
    IN [should_publish |->
            IF integrity < 60 THEN FALSE
            ELSE IF news_value < 60 THEN FALSE
            ELSE IF overall_score < 70 THEN FALSE
            ELSE should_publish,
        score |-> overall_score,
        ethics_score |-> integrity,
        engagement_score |-> news_value,
        reasoning |-> OverrideReasoning(integrity, news_value, overall_score)]

\* AIContentMonitor.evaluate_content.
EvaluateContent(resp) ==
    IF resp.kind = "http_error"
    THEN [should_publish |-> FALSE, score |-> 0, ethics_score |-> 0,
          engagement_score |-> 0, reasoning |-> "AI API error"]
    ELSE IF resp.kind = "exception"
    THEN [should_publish |-> FALSE, score |-> 0, ethics_score |-> 0,
          engagement_score |-> 0, reasoning |-> "AI system error"]
    ELSE ParseAIResponse(resp)

\* One story is evaluated and the scoring call yields ai_response.
AIInit ==
    /\ ai_response \in {<<resp>> : resp \in AIResponses}
    /\ ai_decision = <<>>

\* evaluate_content returns.
Evaluate ==
    /\ ai_response # <<>>
    /\ ai_decision = <<>>
    /\ ai_decision' = <<EvaluateContent(ai_response[1])>>
    /\ UNCHANGED <<now, ai_response>>

(***************************************************************************)
(* post_instagram.main and post_instagram_graph.main                       *)
(*                                                                         *)
(* One run of a posting script handles at most one story and is one step,  *)
(* MainRun.  The two scripts differ in the daily limit they apply and in   *)
(* the column that marks a story as done: `posted` for post_instagram,     *)
(* `published` for post_instagram_graph.                                   *)
(***************************************************************************)

PostingScripts == {"post_instagram", "post_instagram_graph"}

\* Config.MAX_POSTS_PER_HOUR_BREAKING.
MAX_POSTS_PER_HOUR_BREAKING == 4

\* post_instagram.check_daily_limit: `len(posts_today) >= 20`.
PostInstagramDailyLimit == 20

\* The number of rows of posting_history with success = True.
SuccessCount(history) == Cardinality({j \in DOMAIN history : history[j].success})

\* check_daily_limit: True when the limit is not reached, and when the query
\* of posting_history raises.
CheckDailyLimit(script, query_ok, history) ==
    \/ ~query_ok
    \/ SuccessCount(history) <
          (IF script = "post_instagram" THEN PostInstagramDailyLimit ELSE DAILY_CAP)

\* main: `len(posts_hour) >= max_posts_per_hour`, posts_hour being [] when
\* the query of posting_history raises.
RateLimited(query_ok, history, breaking) ==
    (IF query_ok THEN SuccessCount(history) ELSE 0)
        >= (IF breaking THEN MAX_POSTS_PER_HOUR_BREAKING ELSE POSTS_PER_HOUR_MAX)

\* main: the stories the query of the next story may return, those with
\* is_validated true and the script's column false.  Which of them it returns
\* depends on published_at.
Candidates(script) ==
    IF script = "post_instagram"
    THEN {i \in StoryIds : stories[i].is_validated /\ ~stories[i].posted}
    ELSE {i \in StoryIds : stories[i].is_validated /\ i \notin published_ids}

\* Content in which no check finds anything, and the same with a spam pattern.
CleanFindings ==
    [hate |-> FALSE, grade |-> FALSE, ai |-> 0, misinfo |-> FALSE,
     explicit |-> FALSE, spam |-> FALSE, unreliable |-> FALSE, clickbait |-> 0,
     caps |-> 0, punct |-> FALSE]

\* What the checks find in the headline, description and source of a story:
\* a spam pattern matches story 4, nothing matches the others.
StoryContent(id) ==
    IF id = 4 THEN [CleanFindings EXCEPT !.spam = TRUE] ELSE CleanFindings

\* What the scoring call yields for the story of a run: an error, or an
\* object with every sub-score at 0 or every sub-score at 100.
StoryResponses ==
    {[kind |-> "exception", data |-> NoFields]}
    \cup {[kind |-> "json", data |-> [field \in DOMAIN NoFields |-> <<v>>]] :
            v \in {0, 100}}

\* The run ends: what it did is kept in m_last, with the story it selected.
MainEndsStory(script, outcome, gate, adjudicator, story) ==
    m_last' = <<[script |-> script, outcome |-> outcome, gate |-> gate,
                 adjudicator |-> adjudicator, story |-> story]>>

\* The run ends before the safety check.
MainEnds(script, outcome, gate, adjudicator) ==
    MainEndsStory(script, outcome, gate, adjudicator, <<>>)

\* main, from the safety check on, for the story `id`.
MainHandleStory(script, id) ==
    LET f == StoryContent(id)
        safe == IsSafeToPost(f)
    IN
    IF safe[1] = "raised"
    THEN /\ MainEndsStory(script, "raised", "raised", "not_called", <<id>>)
         /\ UNCHANGED <<stories, published_ids, posting_history, ig_posts>>
    ELSE IF ~safe[2].should_post
    THEN /\ MainEndsStory(script, "unsafe", "rejected", "not_called", <<id>>)
         /\ IF script = "post_instagram"
            THEN /\ stories' = [stories EXCEPT ![id].posted = TRUE]
                 /\ UNCHANGED published_ids
            ELSE /\ published_ids' = published_ids \cup {id}
                 /\ stories' = [stories EXCEPT ![id].rejected = TRUE]
         /\ posting_history' = Append(posting_history,
                                      [story_id |-> id, success |-> FALSE])
         /\ UNCHANGED ig_posts
    ELSE
    \E resp \in StoryResponses, pub_ok \in BOOLEAN :
    LET ai == EvaluateContent(resp)
        adjudicator == IF ai.should_publish THEN "approved" ELSE "rejected"
        publish == TRUE
    IN IF publish /\ pub_ok
       THEN /\ MainEndsStory(script, "published", "passed", adjudicator, <<id>>)
            /\ ig_posts' = [ig_posts EXCEPT ![id] = @ + 1]
            /\ IF script = "post_instagram"
               THEN /\ stories' = [stories EXCEPT ![id].posted = TRUE]
                    /\ UNCHANGED published_ids
               ELSE /\ published_ids' = published_ids \cup {id}
                    /\ UNCHANGED stories
            /\ posting_history' = Append(posting_history,
                                         [story_id |-> id, success |-> TRUE])
       ELSE /\ MainEndsStory(script, "publish_failed", "passed", adjudicator, <<id>>)
            /\ posting_history' = Append(posting_history,
                                         [story_id |-> id, success |-> FALSE])
            /\ UNCHANGED <<stories, published_ids, ig_posts>>

\* main, lines 489-541: the gates a run called on its story, in the order of
\* the calls, read from the record of the run.
MainStages(r) ==
    (IF r.gate = "not_called" THEN <<>> ELSE <<"is_safe_to_post">>)
    \o (IF r.adjudicator = "not_called" THEN <<>> ELSE <<"evaluate_content">>)

\* One run of main() of a posting script.
MainRun ==
    /\ m_runs < MaxMainRuns
    /\ m_runs' = m_runs + 1
    /\ \E script \in PostingScripts, post_now \in BOOLEAN :
        IF ~post_now
        THEN /\ MainEnds(script, "skipped", "not_called", "not_called")
             /\ UNCHANGED <<stories, published_ids, posting_history, ig_posts>>
        ELSE
        \E daily_ok \in BOOLEAN :
        IF ~CheckDailyLimit(script, daily_ok, posting_history)
        THEN /\ MainEnds(script, "daily_limit", "not_called", "not_called")
             /\ UNCHANGED <<stories, published_ids, posting_history, ig_posts>>
        ELSE
        \E story \in {<<>>} \cup {<<i>> : i \in Candidates(script)} :
        IF story = <<>>
        THEN /\ MainEnds(script, "no_story", "not_called", "not_called")
             /\ UNCHANGED <<stories, published_ids, posting_history, ig_posts>>
        ELSE
        \E hourly_ok \in BOOLEAN, breaking \in BOOLEAN :
        IF RateLimited(hourly_ok, posting_history, breaking)
        THEN /\ MainEnds(script, "rate_limited", "not_called", "not_called")
             /\ UNCHANGED <<stories, published_ids, posting_history, ig_posts>>
        ELSE MainHandleStory(script, story[1])
    /\ UNCHANGED <<now, db_today, run_posts>>

\* A burst is about to start, the bursts before it having found no article.
BInitLastRun ==
    /\ posts_per_hour_max \in 2..POSTS_PER_HOUR_MAX
    /\ b_pc = "done"
    /\ runs = MaxRuns - 1
    /\ articles = <<>>
    /\ b_idx = 1
    /\ published = 0
    /\ attempts = 0
    /\ posted_categories = NoCategories
    /\ b_last = <<>>

(***************************************************************************)
(* DuplicateDetector (scripts/duplicate_detector.py)                       *)
(*                                                                         *)
(* A similarity is a fraction <<numerator, denominator>>: the number of    *)
(* the AI reply in hundredths, or the word overlap of two headlines.  A    *)
(* headline is the set of its lower-cased words.                           *)
(***************************************************************************)

\* self.similarity_threshold = 0.75.
SimilarityThreshold == <<75, 100>>

\* is_duplicate, mutated: `similarity > self.similarity_threshold`.
ExceedsThreshold(similarity) ==
    similarity[1] * SimilarityThreshold[2] > SimilarityThreshold[1] * similarity[2]

\* is_duplicate: `similarity >= self.similarity_threshold`.
ReachesThreshold(similarity) ==
    similarity[1] * SimilarityThreshold[2] >= SimilarityThreshold[1] * similarity[2]

\* The headlines of the stories of the window.
StoryHeadlines == {{"w1", "w2", "w3"}, {"w1", "w2", "w3", "w4"}, {"w4"}}

\* The headlines of the candidate: none of its words, or three words.
NewHeadlines == {{}, {"w1", "w2", "w3"}}

\* What the similarity call yields for a story: <<>> when the call raises or
\* its reply holds no `0.<digits>` and no `1.0`, <<v>> with v the hundredths
\* of the first such number otherwise.
AIReplies == {<<>>, <<60>>, <<75>>, <<100>>}

\* A row of `stories` in the window: its headline, whether its description
\* is a text or null, and what the similarity call yields for it.
WindowStories ==
    [headline : StoryHeadlines, description : {"text", "null"}, reply : AIReplies]

\* _simple_overlap, mutated: the common words over the words of the first text.
SimpleOverlapOfFirst(words1, words2) ==
    IF words1 = {} \/ words2 = {} THEN <<0, 1>>
    ELSE <<Cardinality(words1 \cap words2), Cardinality(words1)>>

\* DuplicateDetector._simple_overlap.
SimpleOverlap(words1, words2) ==
    IF words1 = {} \/ words2 = {} THEN <<0, 1>>
    ELSE <<Cardinality(words1 \cap words2), Cardinality(words1 \cup words2)>>

\* DuplicateDetector._calculate_similarity: `desc2[:200]` raises TypeError
\* on a null description, before the `try`.
CalculateSimilarity(new_headline, story) ==
    IF story.description = "null" THEN <<"raised", "TypeError">>
    ELSE IF story.reply # <<>> THEN <<"returned", <<story.reply[1], 100>>>>
    ELSE <<"returned", SimpleOverlap(new_headline, story.headline)>>

RECURSIVE CheckStories(_, _, _)
\* is_duplicate, lines 57-75: the loop over recent_stories from the k-th on.
CheckStories(new_headline, recent_stories, k) ==
    IF k > Len(recent_stories)
    THEN [outcome |-> "returned", is_duplicate |-> FALSE,
          reason |-> "Unique content", named |-> 0,
          computed |-> Len(recent_stories)]
    ELSE LET similarity == CalculateSimilarity(new_headline, recent_stories[k]) IN
         IF similarity[1] = "raised"
         THEN [outcome |-> "raised", is_duplicate |-> FALSE,
               reason |-> similarity[2], named |-> 0, computed |-> k - 1]
         ELSE IF ReachesThreshold(similarity[2])
         THEN [outcome |-> "returned", is_duplicate |-> TRUE,
               reason |-> "Too similar", named |-> k, computed |-> k]
         ELSE CheckStories(new_headline, recent_stories, k + 1)

\* DuplicateDetector.is_duplicate, given whether the query of the window
\* succeeds and the rows it returns.
IsDuplicate(new_headline, query_ok, recent_stories) ==
    IF ~query_ok
    THEN [outcome |-> "raised", is_duplicate |-> FALSE,
          reason |-> "Exception", named |-> 0, computed |-> 0]
    ELSE IF recent_stories = <<>>
    THEN [outcome |-> "returned", is_duplicate |-> FALSE,
          reason |-> "No recent content", named |-> 0, computed |-> 0]
    ELSE CheckStories(new_headline, recent_stories, 1)

\* The windows of at most n stories.
Windows(n) == UNION {[1..len -> WindowStories] : len \in 0..n}

\* A candidate is checked against the window the store holds.
DDInit ==
    /\ dd_headline \in {<<h>> : h \in NewHeadlines}
    /\ dd_window \in Windows(MaxDupWindow)
    /\ dd_result = <<>>
    /\ so_texts = <<>> /\ so_overlap = <<>>

\* is_duplicate ends.
CheckDuplicate ==
    /\ dd_headline # <<>>
    /\ dd_result = <<>>
    /\ \E query_ok \in BOOLEAN :
          dd_result' = <<IsDuplicate(dd_headline[1], query_ok, dd_window)>>
    /\ UNCHANGED <<now, dd_headline, dd_window, so_texts, so_overlap>>

\* The words a text may hold.
OverlapWords == {"w1", "w2", "w3", "w4"}

\* Two texts are given, each as the set of its lower-cased words.
SOInit ==
    /\ so_texts \in {<<a, b>> : a \in SUBSET OverlapWords, b \in SUBSET OverlapWords}
    /\ so_overlap = <<>>
    /\ dd_headline = <<>> /\ dd_window = <<>> /\ dd_result = <<>>

\* _simple_overlap is called on the two texts, in both orders.
Overlap ==
    /\ so_texts # <<>>
    /\ so_overlap = <<>>
    /\ so_overlap' = <<SimpleOverlap(so_texts[1], so_texts[2]),
                       SimpleOverlap(so_texts[2], so_texts[1])>>
    /\ UNCHANGED <<now, so_texts, dd_headline, dd_window, dd_result>>

(***************************************************************************)
(* DiversityManager (app/diversity.py)                                     *)
(*                                                                         *)
(* A headline is the list of its lower-cased words, as                     *)
(* re.findall(r'\b\w+\b', headline.lower()) yields them.  The descriptions *)
(* of the stories hold no word, or are null.  The window is the rows       *)
(* get_recent_posts returns, counted by content: text -> number of rows.   *)
(***************************************************************************)

\* extract_event_signature: stopwords.
Stopwords ==
    {"breaking", "the", "a", "an", "in", "on", "at", "to", "for", "of", "by", "with"}

\* TOPIC_KEYWORDS: the topics one of whose keywords is a substring of the word.
KeywordTopics(word) ==
    CASE word = "sanctions" -> {"geopolitics"}
      [] word = "war" -> {"geopolitics"}
      [] word \in {"against", "ai"} -> {"tech"}
      [] OTHER -> {}

\* REGION_KEYWORDS: the regions one of whose keywords is a substring of the
\* word (`us` is one of `house`).
KeywordRegions(word) ==
    CASE word \in {"us", "house"} -> {"north_america"}
      [] word = "venezuela" -> {"south_america"}
      [] OTHER -> {}

\* REGION_KEYWORDS, in the order of the dictionary.
RegionOrder ==
    <<"north_america", "south_america", "europe", "middle_east", "asia",
      "africa", "oceania">>

\* The texts of the stories: headline, description and source.
StoryTexts ==
    {[headline |-> <<"venezuela", "sanctions", "tighten">>,
      description |-> "text", source |-> "bbc"],
     [headline |-> <<"breaking", "tighten", "sanctions", "on", "venezuela">>,
      description |-> "text", source |-> "bbc"],
     [headline |-> <<"venezuela", "sanctions", "tightened">>,
      description |-> "text", source |-> "bbc"],
     [headline |-> <<"the", "un", "met">>,
      description |-> "text", source |-> "bbc"],
     [headline |-> <<"us", "war", "on", "ai">>,
      description |-> "text", source |-> "nikkei asia"],
     [headline |-> <<"us", "house", "against", "sanctions">>,
      description |-> "text", source |-> "bbc"],
     [headline |-> <<"us", "house", "against", "sanctions">>,
      description |-> "null", source |-> "bbc"]}

\* The words of a list.
WordsOf(words) == {words[i] : i \in DOMAIN words}

\* DiversityManager.extract_topics.
ExtractTopics(text) ==
    LET topics == UNION {KeywordTopics(w) : w \in WordsOf(text.headline)}
    IN IF topics # {} THEN topics ELSE {"general"}

\* DiversityManager.extract_region.
ExtractRegion(text) ==
    LET found == UNION {KeywordRegions(w) : w \in WordsOf(text.headline)}
        hits == {i \in DOMAIN RegionOrder : RegionOrder[i] \in found}
    IN IF hits # {}
       THEN RegionOrder[CHOOSE i \in hits : \A j \in hits : i <= j]
       ELSE IF text.source = "nikkei asia" THEN "asia"
       ELSE "global"

\* DiversityManager.extract_event_signature: the first four words that are no
\* stopword and longer than three letters, sorted.  The sorted list is given
\* as the number of times each word occurs in it.
ExtractEventSignature(headline) ==
    LET significant == SelectSeq(headline, LAMBDA w : w \notin Stopwords /\ Len(w) > 3)
        first == SubSeq(significant, 1, Min(4, Len(significant)))
    IN [w \in WordsOf(first) |-> Cardinality({i \in DOMAIN first : first[i] = w})]

\* len(recent_posts).
WindowSize(window) == SumOver(window, DOMAIN window)

\* calculate_diversity_penalty, mutated: the penalties of 5 and of 3 repeats
\* exchanged.
EventPenaltySwapped(event_frequency) ==
    IF event_frequency >= 5 THEN 25
    ELSE IF event_frequency >= 3 THEN 40
    ELSE IF event_frequency >= 2 THEN 15
    ELSE 0

\* calculate_diversity_penalty: the event duplication penalty.
EventPenalty(event_frequency) ==
    IF event_frequency >= 5 THEN 40
    ELSE IF event_frequency >= 3 THEN 25
    ELSE IF event_frequency >= 2 THEN 15
    ELSE 0

\* calculate_diversity_penalty: the regional saturation penalty, for
\* region_percentage = (region_frequency / len(recent_posts)) * 100.
RegionPenalty(region_frequency, posts) ==
    IF region_frequency * 100 > 80 * posts THEN 15
    ELSE IF region_frequency * 100 > 60 * posts THEN 8
    ELSE 0

\* calculate_diversity_penalty, mutated: half the penalty of a topic above 70%.
TopicPenaltyHalved(topic_frequency, posts) ==
    IF topic_frequency * 100 > 70 * posts THEN 6
    ELSE IF topic_frequency * 100 > 50 * posts THEN 6
    ELSE 0

\* calculate_diversity_penalty: the saturation penalty of one topic.
TopicPenalty(topic_frequency, posts) ==
    IF topic_frequency * 100 > 70 * posts THEN 12
    ELSE IF topic_frequency * 100 > 50 * posts THEN 6
    ELSE 0

RECURSIVE TopicsPenalty(_, _, _)
\* calculate_diversity_penalty: the loop over current_topics.
TopicsPenalty(topics, topic_counts, posts) ==
    IF topics = {} THEN 0
    ELSE LET topic == CHOOSE x \in topics : TRUE
         IN TopicPenalty(topic_counts[topic], posts)
              + TopicsPenalty(topics \ {topic}, topic_counts, posts)

\* calculate_diversity_penalty, lines 174-204: the penalty from the counts.
PenaltyFromCounts(event_frequency, region_frequency, topics, topic_counts, posts) ==
    Min(EventPenalty(event_frequency) + RegionPenalty(region_frequency, posts)
            + TopicsPenalty(topics, topic_counts, posts),
        50)

\* The counts calculate_diversity_penalty draws from the window for the
\* candidate.
DiversityCounts(candidate, window) ==
    LET current_topics == ExtractTopics(candidate)
        current_region == ExtractRegion(candidate)
        current_event == ExtractEventSignature(candidate.headline)
        rows == {t \in DOMAIN window : window[t] > 0}
    IN [event_frequency |->
            SumOver(window, {t \in rows : ExtractEventSignature(t.headline) = current_event}),
        region_frequency |->
            SumOver(window, {t \in rows : ExtractRegion(t) = current_region}),
        topics |-> current_topics,
        topic_counts |->
            [topic \in current_topics |->
                SumOver(window, {t \in rows : topic \in ExtractTopics(t)})],
        posts |-> WindowSize(window)]

\* DiversityManager.calculate_diversity_penalty, given whether the queries of
\* get_recent_posts succeed and the rows they return.  The text of a row
\* with a null description cannot be built: TypeError.
CalculateDiversityPenalty(candidate, query_ok, window) ==
    IF ~query_ok \/ WindowSize(window) = 0 THEN <<"returned", 0>>
    ELSE IF \E t \in DOMAIN window : window[t] > 0 /\ t.description = "null"
    THEN <<"raised", "TypeError">>
    ELSE LET c == DiversityCounts(candidate, window)
         IN <<"returned",
              PenaltyFromCounts(c.event_frequency, c.region_frequency, c.topics,
                                c.topic_counts, c.posts)>>

RECURSIVE WindowsOver(_, _)
\* The windows of at most n rows whose texts are in `texts`.
WindowsOver(texts, n) ==
    IF texts = {} THEN {<<>>}
    ELSE LET t == CHOOSE x \in texts : TRUE
         IN UNION {{[x \in DOMAIN w \cup {t} |-> IF x = t THEN k ELSE w[x]] :
                        w \in WindowsOver(texts \ {t}, n - k)} : k \in 0..n}

\* The windows of at most n rows.
DiversityWindows(n) == WindowsOver(StoryTexts, n)

\* A candidate is weighed against the window the store holds.
DivInit ==
    /\ div_candidate \in {<<t>> : t \in {x \in StoryTexts : x.description = "text"}}
    /\ div_window \in {<<w>> : w \in DiversityWindows(MaxDivWindow)}
    /\ div_result = <<>>

\* calculate_diversity_penalty ends.
CalculatePenalty ==
    /\ div_candidate # <<>>
    /\ div_result = <<>>
    /\ \E query_ok \in BOOLEAN :
          div_result' =
              <<[query_ok |-> query_ok,
                 call |-> CalculateDiversityPenalty(div_candidate[1], query_ok,
                                                    div_window[1])]>>
    /\ UNCHANGED <<now, div_candidate, div_window>>

(***************************************************************************)
(* A burst next to a tripped breaker                                       *)
(*                                                                         *)
(* groq_circuit_breaker and supabase_circuit_breaker are module globals of *)
(* app/error_recovery.py.  The burst runs while a breaker is CLOSED, or    *)
(* OPEN after failure_threshold failed calls at time 0.                    *)
(***************************************************************************)

\* The breaker after failure_threshold calls in which func raised, the last
\* of them at time 0.
CBTripped ==
    /\ failure_threshold \in 1..MaxThreshold
    /\ timeout = MaxTimeout
    /\ failures = failure_threshold
    /\ last_failure_time = <<0>>
    /\ state = "OPEN"
    /\ cb_pc = "idle"
    /\ cb_calls = failure_threshold
    /\ cb_invoked = failure_threshold
    /\ cb_last = [entry |-> "CLOSED", at_func |-> "CLOSED", outcome |-> "raised"]
    /\ cb_ret = <<FALSE, None>>
    /\ streak = failure_threshold

(***************************************************************************)
(* APIKeyManager (app/api_key_manager.py)                                  *)
(*                                                                         *)
(* keys is the list the constructor keeps, which is never empty and may    *)
(* hold a key twice; mark_key_failed takes any string.                     *)
(***************************************************************************)

MaxKeys == 3            \* the manager holds 1..MaxKeys keys

KeyNames == {"k1", "k2", "k3"}

\* The keys mark_key_failed may be given: a configured key or another string.
MarkableKeys == KeyNames \cup {"other"}

Strategies == {"round_robin", "random", "failover", "unknown"}

\* The list comprehension of get_next_key, mutated: failed keys are kept.
AvailableKeysAll(keys, failed) == keys

\* get_next_key: `[k for k in self.keys if k not in self.failed_keys]`.
AvailableKeys(keys, failed) == SelectSeq(keys, LAMBDA k : k \notin failed)

\* APIKeyManager.__init__, with a list of 1..MaxKeys non-blank keys.
KMInit ==
    /\ km_keys \in UNION {[1..n -> KeyNames] : n \in 1..MaxKeys}
    /\ current_index = 0
    /\ failed_keys = {}
    /\ km_last = <<>>

\* APIKeyManager.get_next_key(strategy).
GetNextKey ==
    \E strategy \in Strategies :
    LET filtered == AvailableKeys(km_keys, failed_keys)
        all_failed == filtered = <<>>
        available_keys == IF all_failed THEN km_keys ELSE filtered
        failed_after == IF all_failed THEN {} ELSE failed_keys
    IN
    /\ failed_keys' = failed_after
    /\ \E key \in KeyNames :
          /\ CASE strategy = "round_robin" ->
                      key = available_keys[(current_index % Len(available_keys)) + 1]
                 [] strategy = "random" ->
                      \E i \in DOMAIN available_keys : key = available_keys[i]
                 [] OTHER -> key = available_keys[1]
          /\ km_last' = <<[key |-> key,
                           failed_before |-> failed_keys,
                           failed_after |-> failed_after]>>
    /\ current_index' = IF strategy = "round_robin"
                        THEN (current_index + 1) % Len(available_keys)
                        ELSE current_index
    /\ UNCHANGED <<now, km_keys>>

\* APIKeyManager.mark_key_failed(key).
MarkKeyFailed ==
    /\ \E key \in MarkableKeys : failed_keys' = failed_keys \cup {key}
    /\ UNCHANGED <<now, km_keys, current_index, km_last>>

\* APIKeyManager.reset_failed_keys().
ResetFailedKeys ==
    /\ failed_keys' = {}
    /\ UNCHANGED <<now, km_keys, current_index, km_last>>

(***************************************************************************)
(* Two bursts at once: the scheduled hourly_publish_burst (start_scheduler)*)
(* and the one /test-hourly-burst awaits (main.py, test_burst)             *)
(*                                                                         *)
(* Each burst has its locals; the store and the platform are shared.  The  *)
(* awaits of the burst at lines 337, 348 and 409 call coroutines that do   *)
(* blocking work and never suspend; `await asyncio.sleep(5)` at line 430   *)
(* suspends the burst after a publish below the cap.  The bursts are       *)
(* interleaved at that await only, which is what one event loop does and   *)
(* is one of the schedules of two processes.  The store answers here: the  *)
(* update of the published story succeeds.                                 *)
(***************************************************************************)

TwoBurstsInit ==
    /\ t_pc = "idle"
    /\ t_articles = <<>>
    /\ t_idx = 1
    /\ t_published = 0
    /\ t_posted_categories = NoCategories
    /\ loop_owner = "none"
    /\ pub_by = [i \in StoryIds |-> {}]

\* The store took every update of a published story.
StoreAnswers == \A i \in StoryIds : ig_posts'[i] > 0 => stories'[i].posted

\* The scheduled burst starts, the event loop being free.
ScheduledBurstStart ==
    /\ loop_owner = "none"
    /\ BurstStart
    /\ loop_owner' = IF b_pc' = "done" THEN "none" ELSE "scheduled"
    /\ UNCHANGED <<t_pc, t_articles, t_idx, t_published, t_posted_categories, pub_by>>

\* One iteration of the scheduled burst; after a publish below the cap it
\* sleeps, and the loop is free.
ScheduledBurstIterate ==
    /\ loop_owner \in {"none", "scheduled"}
    /\ BurstIterate
    /\ StoreAnswers
    /\ loop_owner' = IF b_pc' = "done" \/ published' > published
                     THEN "none" ELSE "scheduled"
    /\ pub_by' = IF published' > published
                 THEN [pub_by EXCEPT ![articles[b_idx]] = @ \cup {"scheduled"}]
                 ELSE pub_by
    /\ UNCHANGED <<t_pc, t_articles, t_idx, t_published, t_posted_categories>>

\* test_burst: hourly_publish_burst, lines 333-356, on the locals of the
\* second burst.
TestBurstStart ==
    /\ loop_owner = "none"
    /\ t_pc = "idle"
    /\ \E cats_ok \in BOOLEAN, fetch_ok \in BOOLEAN :
        /\ t_posted_categories' = IF cats_ok THEN db_today ELSE NoCategories
        /\ t_articles' = IF fetch_ok THEN FetchArticles(stories, FetchLimit) ELSE <<>>
    /\ t_pc' = IF t_articles' = <<>> THEN "done" ELSE "loop"
    /\ t_published' = 0
    /\ t_idx' = 1
    /\ loop_owner' = IF t_pc' = "done" THEN "none" ELSE "test"
    /\ UNCHANGED <<now, storeVars, bVars, pub_by>>

\* The iteration of the second burst ends, as BurstContinue.
TestBurstContinue ==
    /\ t_idx' = t_idx + 1
    /\ t_pc' = IF t_idx + 1 > Len(t_articles) THEN "done" ELSE "loop"

\* test_burst: hourly_publish_burst, lines 358-430, on the locals of the
\* second burst.
TestBurstIterate ==
    /\ loop_owner \in {"none", "test"}
    /\ t_pc = "loop"
    /\ t_idx <= Len(t_articles)
    /\ LET id == t_articles[t_idx] IN
       \E resp \in EditorResponses, pub_ok \in BOOLEAN :
          LET verdict == ValidateContent(resp)
              category == verdict.category
              publishes ==
                  /\ stories[id].quality_ok
                  /\ ~EditorRejects(verdict)
                  /\ ~DiversitySkip(t_posted_categories, category)
                  /\ pub_ok
          IN
          IF ~publishes
          THEN /\ TestBurstContinue
               /\ loop_owner' = IF t_pc' = "done" THEN "none" ELSE "test"
               /\ UNCHANGED <<storeVars, t_published, t_posted_categories, pub_by>>
          ELSE /\ ig_posts' = [ig_posts EXCEPT ![id] = @ + 1]
               /\ stories' = [stories EXCEPT ![id].posted = TRUE]
               /\ db_today' = [db_today EXCEPT ![category] = @ + 1]
               /\ t_published' = t_published + 1
               /\ t_posted_categories' = [t_posted_categories EXCEPT ![category] = @ + 1]
               /\ IF CapReached(t_published + 1, posts_per_hour_max)
                  THEN t_pc' = "done" /\ t_idx' = t_idx
                  ELSE TestBurstContinue
               /\ loop_owner' = "none"
               /\ pub_by' = [pub_by EXCEPT ![id] = @ \cup {"test"}]
               /\ UNCHANGED <<posting_history, run_posts>>
    /\ UNCHANGED <<now, bVars, t_articles>>

(***************************************************************************)
(* Specifications                                                          *)
(***************************************************************************)
SGIdle == sg_input = <<>> /\ sg_result = <<>>

AIIdle == ai_response = <<>> /\ ai_decision = <<>>

SOIdle == so_texts = <<>> /\ so_overlap = <<>>

DDIdle == dd_headline = <<>> /\ dd_window = <<>> /\ dd_result = <<>> /\ SOIdle

MIdle == published_ids = {} /\ m_runs = 0 /\ m_last = <<>>

DivIdle == div_candidate = <<>> /\ div_window = <<>> /\ div_result = <<>>

KMIdle ==
    /\ km_keys = <<"k1">>
    /\ current_index = 0
    /\ failed_keys = {}
    /\ km_last = <<>>

TBIdle ==
    /\ t_pc = "idle"
    /\ t_articles = <<>>
    /\ t_idx = 1
    /\ t_published = 0
    /\ t_posted_categories = NoCategories
    /\ loop_owner = "none"
    /\ pub_by = [i \in StoryIds |-> {}]

ExtIdle == KMIdle /\ TBIdle

GatesIdle == SGIdle /\ AIIdle /\ DDIdle /\ MIdle /\ DivIdle /\ ExtIdle

vars == <<now, rlVars, cbVars, rtVars, storeVars, bVars, gateVars>>

InitRL == now = 0 /\ RLInit /\ CBIdle /\ RTIdle /\ StoreIdle /\ BIdle /\ GatesIdle

NextRL ==
    \/ AllowRequest /\ UNCHANGED <<cbVars, rtVars, storeVars, bVars, gateVars>>
    \/ WaitIfNeeded /\ UNCHANGED <<cbVars, rtVars, storeVars, bVars, gateVars>>
    \/ GetWaitTime /\ UNCHANGED <<cbVars, rtVars, storeVars, bVars, gateVars>>
    \/ ClockAdvance /\ UNCHANGED <<rlVars, cbVars, rtVars, storeVars, bVars, gateVars>>

SpecRL == InitRL /\ [][NextRL]_vars

InitCB == now = 0 /\ CBInit /\ RLIdle /\ RTIdle /\ StoreIdle /\ BIdle /\ GatesIdle

NextCB ==
    \/ CBCall /\ UNCHANGED <<rlVars, rtVars, storeVars, bVars, gateVars>>
    \/ CBFuncReturns /\ UNCHANGED <<rlVars, rtVars, storeVars, bVars, gateVars>>
    \/ CBFuncRaises /\ UNCHANGED <<rlVars, rtVars, storeVars, bVars, gateVars>>
    \/ CBFuncRaisesUncaught /\ UNCHANGED <<rlVars, rtVars, storeVars, bVars, gateVars>>
    \/ CBReset /\ UNCHANGED <<rlVars, rtVars, storeVars, bVars, gateVars>>
    \/ ClockAdvance /\ UNCHANGED <<rlVars, cbVars, rtVars, storeVars, bVars, gateVars>>

SpecCB == InitCB /\ [][NextCB]_vars

InitRetry == now = 0 /\ RTInit /\ RLIdle /\ CBIdle /\ StoreIdle /\ BIdle /\ GatesIdle

NextRetry ==
    \/ RetryCall /\ UNCHANGED <<rlVars, cbVars, storeVars, bVars, gateVars>>
    \/ RetryFuncReturns /\ UNCHANGED <<rlVars, cbVars, storeVars, bVars, gateVars>>
    \/ RetryFuncRaises /\ UNCHANGED <<rlVars, cbVars, storeVars, bVars, gateVars>>

SpecRetry == InitRetry /\ [][NextRetry]_vars

InitBurst == now = 0 /\ StoreInit /\ BInit /\ RLIdle /\ CBIdle /\ RTIdle /\ GatesIdle

NextBurst ==
    \/ BurstStart /\ UNCHANGED <<rlVars, cbVars, rtVars, gateVars>>
    \/ BurstIterate /\ UNCHANGED <<rlVars, cbVars, rtVars, gateVars>>

SpecBurst == InitBurst /\ [][NextBurst]_vars

InitSafety ==
    now = 0 /\ SGInit /\ AIIdle /\ DDIdle /\ MIdle /\ DivIdle /\ ExtIdle
    /\ RLIdle /\ CBIdle /\ RTIdle /\ StoreIdle /\ BIdle

NextSafety ==
    \/ ScreenContent
        /\ UNCHANGED <<rlVars, cbVars, rtVars, storeVars, bVars, aiVars, ddVars, mVars, divVars, extVars>>

SpecSafety == InitSafety /\ [][NextSafety]_vars

InitMonitor ==
    now = 0 /\ AIInit /\ SGIdle /\ DDIdle /\ MIdle /\ DivIdle /\ ExtIdle
    /\ RLIdle /\ CBIdle /\ RTIdle /\ StoreIdle /\ BIdle

NextMonitor ==
    \/ Evaluate
        /\ UNCHANGED <<rlVars, cbVars, rtVars, storeVars, bVars, sgVars, ddVars, mVars, divVars, extVars>>

SpecMonitor == InitMonitor /\ [][NextMonitor]_vars

\* No story was posted today before the burst starts.
InitGates ==
    now = 0 /\ StoreInit /\ db_today = NoCategories /\ BInitLastRun
    /\ MIdle /\ SGIdle /\ AIIdle /\ DDIdle /\ DivIdle /\ ExtIdle
    /\ RLIdle /\ CBIdle /\ RTIdle

NextGates ==
    \/ BurstStart /\ UNCHANGED <<rlVars, cbVars, rtVars, gateVars>>
    \/ BurstIterate /\ UNCHANGED <<rlVars, cbVars, rtVars, gateVars>>
    \/ MainRun /\ UNCHANGED <<rlVars, cbVars, rtVars, bVars, sgVars, aiVars, ddVars, divVars, extVars>>

SpecGates == InitGates /\ [][NextGates]_vars

InitDup ==
    now = 0 /\ DDInit /\ SGIdle /\ AIIdle /\ MIdle /\ DivIdle /\ ExtIdle
    /\ RLIdle /\ CBIdle /\ RTIdle /\ StoreIdle /\ BIdle

NextDup ==
    \/ CheckDuplicate
        /\ UNCHANGED <<rlVars, cbVars, rtVars, storeVars, bVars, sgVars, aiVars, mVars, divVars, extVars>>

SpecDup == InitDup /\ [][NextDup]_vars

InitDiversity ==
    now = 0 /\ DivInit /\ SGIdle /\ AIIdle /\ DDIdle /\ MIdle /\ ExtIdle
    /\ RLIdle /\ CBIdle /\ RTIdle /\ StoreIdle /\ BIdle

NextDiversity ==
    \/ CalculatePenalty
        /\ UNCHANGED <<rlVars, cbVars, rtVars, storeVars, bVars, sgVars, aiVars,
                       ddVars, mVars, extVars>>

SpecDiversity == InitDiversity /\ [][NextDiversity]_vars

InitOverlap ==
    now = 0 /\ SOInit /\ SGIdle /\ AIIdle /\ MIdle /\ DivIdle /\ ExtIdle
    /\ RLIdle /\ CBIdle /\ RTIdle /\ StoreIdle /\ BIdle

NextOverlap ==
    \/ Overlap
        /\ UNCHANGED <<rlVars, cbVars, rtVars, storeVars, bVars, sgVars, aiVars,
                       mVars, divVars, extVars>>

SpecOverlap == InitOverlap /\ [][NextOverlap]_vars

InitKeys ==
    now = 0 /\ KMInit /\ TBIdle /\ SGIdle /\ AIIdle /\ DDIdle /\ MIdle /\ DivIdle
    /\ RLIdle /\ CBIdle /\ RTIdle /\ StoreIdle /\ BIdle

otherThanKeys == <<rlVars, cbVars, rtVars, storeVars, bVars, sgVars, aiVars, ddVars,
                   mVars, divVars, tbVars>>

NextKeys ==
    \/ GetNextKey /\ UNCHANGED otherThanKeys
    \/ MarkKeyFailed /\ UNCHANGED otherThanKeys
    \/ ResetFailedKeys /\ UNCHANGED otherThanKeys

SpecKeys == InitKeys /\ [][NextKeys]_vars

InitTwoBursts ==
    /\ now = 0 /\ StoreIdle /\ BInitLastRun /\ TwoBurstsInit /\ KMIdle
    /\ SGIdle /\ AIIdle /\ DDIdle /\ MIdle /\ DivIdle /\ RLIdle /\ CBIdle /\ RTIdle

otherThanBursts == <<rlVars, cbVars, rtVars, sgVars, aiVars, ddVars, mVars, divVars,
                     kmVars>>

NextTwoBursts ==
    \/ ScheduledBurstStart /\ UNCHANGED otherThanBursts
    \/ ScheduledBurstIterate /\ UNCHANGED otherThanBursts
    \/ TestBurstStart /\ UNCHANGED otherThanBursts
    \/ TestBurstIterate /\ UNCHANGED otherThanBursts

SpecTwoBursts == InitTwoBursts /\ [][NextTwoBursts]_vars

InitGroq == now = 0 /\ GroqInit /\ StoreIdle /\ BIdle /\ GatesIdle

NextGroq ==
    \/ GroqWait /\ UNCHANGED <<storeVars, bVars, gateVars>>
    \/ GroqAttempt /\ UNCHANGED <<storeVars, bVars, gateVars>>
    \/ ClockAdvance /\ UNCHANGED <<rlVars, cbVars, rtVars, storeVars, bVars, gateVars>>

SpecGroq == InitGroq /\ [][NextGroq]_vars

InitBreaker ==
    now = 0 /\ StoreInit /\ BInitLastRun /\ (CBInit \/ CBTripped)
    /\ GatesIdle /\ RLIdle /\ RTIdle

NextBreaker ==
    \/ BurstStart /\ UNCHANGED <<rlVars, cbVars, rtVars, gateVars>>
    \/ BurstIterate /\ UNCHANGED <<rlVars, cbVars, rtVars, gateVars>>

SpecBreaker == InitBreaker /\ [][NextBreaker]_vars

(***************************************************************************)
(* Properties of the RateLimiter                                           *)
(***************************************************************************)

\* The admissions whose time lies in the window [t, t + w).
AdmittedIn(t, w) == {i \in DOMAIN admitted : t <= admitted[i] /\ admitted[i] < t + w}

\* C1: at non-decreasing clock times, the calls of allow_request that returned
\* True and whose admission times lie in one window [t, t + time_window) are
\* never more than max_calls.
C1_AtMostMaxCallsPerWindow ==
    \A t \in 0..now : Cardinality(AdmittedIn(t, time_window)) <= max_calls

\* C1, its case: a request was refused, and over the whole run more than
\* max_calls requests were admitted (the window has slid).
C1_Witness ==
    /\ rl_ret = <<FALSE>>
    /\ Len(admitted) > max_calls

\* C35: in every reachable state of a RateLimiter, under any order of
\* allow_request, wait_if_needed and get_wait_time calls, the stored list of
\* call timestamps has at most max_calls entries.
C35_StoredCallsAtMostMaxCalls == Len(calls) <= max_calls

\* C35, its case: the list is full of timestamps that have all left the
\* window, wait_if_needed having been refused before and get_wait_time being
\* the last call.
C35_Witness ==
    /\ Len(calls) = max_calls
    /\ max_calls > 1
    /\ \A i \in DOMAIN calls : now - calls[i] >= time_window
    /\ rl_wait # <<>>
    /\ \E i \in DOMAIN admitted : admitted[i] \notin {calls[j] : j \in DOMAIN calls}

\* The stored timestamps that are still in the window at time n.
StillInWindow(n) == {i \in DOMAIN calls : n - calls[i] < time_window}

\* C36: get_wait_time returns 0 exactly when an allow_request call at the
\* same instant would be admitted, and otherwise returns the time remaining
\* until the oldest stored timestamp leaves the window.
C36_WaitTimeZeroIffAdmitted ==
    (rl_wait # <<>> /\ rl_wait[1].at = now) =>
        LET value == rl_wait[1].value
            would_admit == Cardinality(StillInWindow(now)) < max_calls
        IN /\ value = 0 <=> would_admit
           /\ ~would_admit =>
                 \E i \in DOMAIN calls :
                    /\ \A j \in DOMAIN calls : calls[i] <= calls[j]
                    /\ value = calls[i] + time_window - now

\* C36, its case: get_wait_time finds the list full, its oldest timestamp
\* out of the window and a later one still in it, and returns 0.
C36_Witness ==
    /\ rl_wait # <<>> /\ rl_wait[1].at = now
    /\ rl_wait[1].value = 0
    /\ Len(calls) = max_calls
    /\ StillInWindow(now) # {}
    /\ StillInWindow(now) # DOMAIN calls

\* C36, its other case: get_wait_time returns a wait of more than a second.
C36_WitnessWait ==
    /\ rl_wait # <<>> /\ rl_wait[1].at = now
    /\ rl_wait[1].value > 1

(***************************************************************************)
(* Properties of the CircuitBreaker                                        *)
(***************************************************************************)

\* C2: a call that finds the breaker CLOSED leaves it OPEN exactly when it
\* completes failure_threshold consecutive failed calls: after a shorter run
\* of consecutive failures the breaker is still CLOSED, and failures separated
\* by a success do not add up.
C2_OpensAtThresholdConsecutiveFailures ==
    (cb_last.at_func = "CLOSED" /\ cb_last.outcome \in {"ok", "raised"})
        => (state = "OPEN" <=> streak = failure_threshold)

\* C3: an OPEN breaker becomes HALF_OPEN only in a call() made more than
\* timeout seconds after the last recorded failure, and a call() made before
\* that leaves it OPEN.
C3_HalfOpenOnlyAfterCooldown ==
    [][ /\ (state = "OPEN" /\ state' = "HALF_OPEN")
            => /\ cb_calls' = cb_calls + 1
               /\ last_failure_time # <<>>
               /\ now - last_failure_time[1] > timeout
        /\ (/\ state = "OPEN"
            /\ cb_calls' = cb_calls + 1
            /\ last_failure_time # <<>>
            /\ now - last_failure_time[1] <= timeout)
            => state' = "OPEN" ]_vars

\* C3, its case: a call found the breaker OPEN and moved it to HALF_OPEN.
C3_Witness ==
    /\ state = "HALF_OPEN"
    /\ cb_last.entry = "OPEN"

\* C4: a call() made while the breaker is OPEN and at most timeout seconds
\* after the last failure returns (False, None), does not invoke func, and
\* leaves state, failures and last_failure_time as they were.
C4_BlockedCallChangesNothing ==
    [][ (/\ cb_calls' = cb_calls + 1
         /\ state = "OPEN"
         /\ last_failure_time # <<>>
         /\ now - last_failure_time[1] <= timeout)
        => /\ cb_ret' = <<FALSE, None>>
           /\ cb_invoked' = cb_invoked
           /\ cb_pc' = "idle"
           /\ state' = state
           /\ failures' = failures
           /\ last_failure_time' = last_failure_time ]_vars

\* C4, its case: the last call was blocked, exactly timeout seconds after the
\* last failure.
C4_Witness ==
    /\ cb_last.outcome = "blocked"
    /\ last_failure_time # <<>>
    /\ now - last_failure_time[1] = timeout

\* C5: after a call in which func succeeded (the breaker being CLOSED or
\* HALF_OPEN when func was invoked), failures is 0 and the state is CLOSED.
C5_SuccessResetsFailures ==
    cb_last.outcome = "ok" => (failures = 0 /\ state = "CLOSED")

\* C6: when func fails in a call made while the breaker is HALF_OPEN, the
\* breaker is OPEN when the call returns.
C6_HalfOpenFailureReopens ==
    (cb_last.at_func = "HALF_OPEN" /\ cb_last.outcome = "raised") => state = "OPEN"

\* C6, its case: func failed in HALF_OPEN with a failure count already past
\* the threshold.
C6_Witness ==
    /\ cb_last.at_func = "HALF_OPEN"
    /\ cb_last.outcome = "raised"
    /\ failures > failure_threshold

\* The step is the end of a call() in which func raised.
FuncRaisedInCall ==
    /\ cb_pc = "in_func"
    /\ cb_pc' = "idle"
    /\ cb_last'.outcome \in {"raised", "raised_base"}

\* C34: CircuitBreaker.call never raises: when func raises any exception it
\* returns (False, None), and the breaker adds no error of its own in any
\* state.
C34_CallNeverRaises ==
    [][/\ FuncRaisedInCall => cb_ret' = <<FALSE, None>>
       /\ cb_last'.outcome # "TypeError"]_vars

\* C34, amended: when func raises an error derived from Exception, call
\* returns (False, None); an error of func that is not derived from
\* Exception (KeyboardInterrupt, SystemExit) leaves call(), which returns
\* nothing and writes neither state, failures nor last_failure_time; the
\* breaker adds no error of its own in any state.
C34_CallRaisesOnlyBaseExceptions ==
    [][/\ (FuncRaisedInCall /\ cb_last'.outcome = "raised")
            => cb_ret' = <<FALSE, None>>
       /\ (FuncRaisedInCall /\ cb_last'.outcome = "raised_base")
            => /\ cb_ret' = <<>>
               /\ state' = state
               /\ failures' = failures
               /\ last_failure_time' = last_failure_time
       /\ cb_last'.outcome # "TypeError"]_vars

\* C34, its case: func raised a KeyboardInterrupt in a HALF_OPEN breaker,
\* which is left HALF_OPEN, after a call in which it raised an Exception.
C34_Witness ==
    /\ cb_last.outcome = "raised_base"
    /\ cb_last.at_func = "HALF_OPEN"
    /\ state = "HALF_OPEN"
    /\ cb_pc = "idle"
    /\ failures > 0

\* C39: whenever a CircuitBreaker is OPEN or HALF_OPEN, its failure count is
\* at least failure_threshold and its last-failure time is set, so that the
\* cooldown comparison in call never reads an unset timestamp, under any
\* order of call and reset.
C39_OpenHasThresholdFailuresAndTime ==
    /\ state \in {"OPEN", "HALF_OPEN"}
          => (failures >= failure_threshold /\ last_failure_time # <<>>)
    /\ cb_last.outcome # "TypeError"

\* C39, its case: the breaker is OPEN again after a reset, and the last call
\* made the cooldown comparison and was blocked.
C39_Witness ==
    /\ state = "OPEN"
    /\ cb_last.outcome = "blocked"
    /\ cb_invoked < cb_calls - 1
    /\ failures = failure_threshold
    /\ failure_threshold > 1

(***************************************************************************)
(* Properties of retry_with_backoff                                        *)
(***************************************************************************)

RECURSIVE SumSeq(_)
SumSeq(q) == IF q = <<>> THEN 0 ELSE q[1] + SumSeq(Tail(q))

\* C7: func is invoked at most max_retries + 1 times; no invocation follows
\* a successful one, whose result wrapper returns; and when all
\* max_retries + 1 invocations raise a retryable error, wrapper raises the
\* error of the last one.
C7_AtMostNPlusOneAttempts ==
    /\ Len(outcomes) <= max_retries + 1
    /\ \A i \in 1..(Len(outcomes) - 1) : outcomes[i].kind # "ok"
    /\ (outcomes # <<>> /\ outcomes[Len(outcomes)].kind = "ok")
        => (rt_pc = "returned" /\ rt_result = <<"returned", outcomes[Len(outcomes)]>>)
    /\ rt_pc = "returned"
        => (outcomes # <<>> /\ outcomes[Len(outcomes)].kind = "ok")
    /\ (/\ Len(outcomes) = max_retries + 1
        /\ \A i \in DOMAIN outcomes : outcomes[i].kind \in exceptions)
        => (rt_pc = "raised" /\ rt_result = <<"raised", outcomes[max_retries + 1]>>)

\* C7, its case: every one of at least two attempts raised a retryable error
\* and wrapper raised.
C7_Witness ==
    /\ rt_pc = "raised"
    /\ max_retries >= 1
    /\ Len(outcomes) = max_retries + 1
    /\ \A i \in DOMAIN outcomes : outcomes[i].kind \in exceptions

\* C8: an error of func that is not in exceptions ends the call: wrapper
\* raises that very error, func is not invoked again, and no sleep follows
\* the failed invocation.
C8_NonRetryableErrorPropagates ==
    \A i \in DOMAIN outcomes :
        (outcomes[i].kind # "ok" /\ outcomes[i].kind \notin exceptions)
            => /\ i = Len(outcomes)
               /\ rt_pc = "raised"
               /\ rt_result = <<"raised", outcomes[i]>>
               /\ Len(sleeps) = i - 1

\* C8, its case: after one retried failure func raised an error that is not
\* retryable, with attempts left.
C8_Witness ==
    /\ Len(outcomes) = 2
    /\ max_retries >= 2
    /\ outcomes[1].kind \in exceptions
    /\ outcomes[2].kind \in ErrorKinds \ exceptions

\* C9: every sleep of one call is at most max_delay, and the sleeps of one
\* call add up to at most max_delay * max_retries.
C9_SleepsBoundedByMaxDelay ==
    /\ \A i \in DOMAIN sleeps : sleeps[i] <= max_delay
    /\ SumSeq(sleeps) <= max_delay * max_retries

(***************************************************************************)
(* Properties of hourly_publish_burst                                      *)
(***************************************************************************)

\* The PostingRecords of successful publishes.
SuccessRecords == {j \in DOMAIN posting_history : posting_history[j].success}

\* The cap of C10 alone: one burst publishes at most Config.POSTS_PER_HOUR_MAX
\* media, and a burst that published every candidate it processed, out of at
\* least as many candidates as the cap, ends with exactly the cap published
\* and the other candidates not processed.
BurstCapHolds ==
    /\ published <= posts_per_hour_max
    /\ run_posts = published
    /\ (b_pc = "done" /\ attempts = published /\ Len(articles) >= posts_per_hour_max)
        => (published = posts_per_hour_max /\ attempts = posts_per_hour_max)

\* The case of BurstCapHolds: cap 2, 5 candidates, 2 processed and published.
BurstCapWitness ==
    /\ b_pc = "done"
    /\ posts_per_hour_max = 2
    /\ Len(articles) = 5
    /\ attempts = 2
    /\ published = 2

\* C10: one burst publishes at most Config.POSTS_PER_HOUR_MAX media; with a
\* cap of 2 and 5 approvable candidates exactly 2 are published and the
\* other 3 are not processed; and every publish has one PostingRecord.
C10_BurstCapAndRecords ==
    /\ BurstCapHolds
    /\ (b_pc = "done" /\ posts_per_hour_max = 2 /\ Len(articles) = 5
            /\ attempts = published)
        => (run_posts = 2 /\ Len(articles) - attempts = 3)
    /\ Cardinality(SuccessRecords) = SumOver(ig_posts, StoryIds)

\* C11: a posting run processes a candidate only while the day's and the
\* hour's successful posts are below their caps, so that, over any sequence
\* of runs, the stories posted in one day are never more than Config.DAILY_CAP.
C11_DailyCapNeverExceeded ==
    TotalPosted(db_today) <= DAILY_CAP

\* C12: over any sequence of posting runs a story is published on the
\* platform at most once: once published it is marked posted in the store and
\* no later run takes it as a candidate.
C12_PublishedAtMostOnce ==
    \A i \in StoryIds : ig_posts[i] <= 1

(***************************************************************************)
(* Properties of the safety gate                                           *)
(***************************************************************************)

\* The content matches a pattern of one of the critical families.
CriticalMatch(f) == f.hate \/ f.grade \/ f.misinfo \/ f.explicit \/ f.spam

\* C17: for content whose text matches a hate-speech, graphic-content,
\* misinformation, explicit-content or spam pattern, comprehensive_check
\* returns safe = false and get_safety_score returns the score 0, whatever
\* the other checks find.
C17_CriticalPatternIsUnsafeScoreZero ==
    (sg_result # <<>> /\ CriticalMatch(sg_input[1]))
        => /\ sg_result[1].check[1] = "returned"
           /\ ~sg_result[1].check[2].safe
           /\ sg_result[1].score = <<"returned", 0>>

\* The content matches no critical pattern and draws no warning.
CleanContent(f) ==
    /\ ~CriticalMatch(f)
    /\ f.ai <= 70
    /\ ~f.unreliable /\ f.clickbait = 0 /\ f.caps <= 50 /\ ~f.punct

\* C18: is_safe_to_post returns should_post = true only for content with no
\* critical violation and a safety score of at least 60, and it returns
\* should_post = true for content with no violation and no warning.
C18_ShouldPostNeedsSafeAndScore60 ==
    sg_result # <<>> =>
        LET f == sg_input[1]
            post == sg_result[1].post
        IN /\ (post[1] = "returned" /\ post[2].should_post)
                => (~CriticalMatch(f) /\ post[2].safety_score >= 60)
           /\ CleanContent(f) => (post[1] = "returned" /\ post[2].should_post)

\* C30: if the AI intensity call made by the safety gate fails,
\* comprehensive_check still completes, the AI adds nothing to the
\* severity, and the content is unsafe only when a critical pattern matches
\* it, never because of the failure.
C30_AIFailureFailsOpen ==
    (sg_result # <<>> /\ AIEvaluateGrade(sg_input[1])[1] = "raised")
        => LET f == sg_input[1]
               check == sg_result[1].check
           IN /\ check[1] = "returned"
              /\ check[2].safe <=> ~CriticalMatch(f)
              /\ (~CriticalMatch(f) /\ ~f.unreliable /\ f.clickbait = 0
                    /\ f.caps <= 50 /\ ~f.punct) => check[2].severity = 0

(***************************************************************************)
(* Properties of the AIContentMonitor                                      *)
(***************************************************************************)

\* The response is a JSON object with all four sub-scores.
AllScoresPresent(resp) ==
    /\ resp.kind = "json"
    /\ \A field \in DOMAIN resp.data : resp.data[field] # <<>>

\* The weighted sum 0.40*integrity + 0.30*news_value + 0.20*quality +
\* 0.10*audience, truncated to an integer.
TruncatedWeightedSum(data) ==
    (40 * data.integrity_score[1] + 30 * data.news_value_score[1]
        + 20 * data.quality_score[1] + 10 * data.audience_score[1]) \div 100

\* C14: for sub-scores in 0..100 the score of _parse_ai_response is the
\* weighted sum 0.40*integrity + 0.30*news_value + 0.20*quality +
\* 0.10*audience truncated to an integer, and should_publish is true exactly
\* when that sum is at least 70 and integrity and news_value are at least 60.
C14_OverallIsTruncatedWeightedSum ==
    (ai_decision # <<>> /\ AllScoresPresent(ai_response[1])) =>
        LET data == ai_response[1].data
            overall == TruncatedWeightedSum(data)
        IN /\ ai_decision[1].score = overall
           /\ ai_decision[1].should_publish
                <=> (/\ overall >= 70
                     /\ data.integrity_score[1] >= 60
                     /\ data.news_value_score[1] >= 60)

\* The call failed, no JSON object could be read from the response, or the
\* object lacks the integrity or the news-value field.
AIFailure(resp) ==
    \/ resp.kind \in {"http_error", "exception", "no_json", "bad_json"}
    \/ /\ resp.kind = "json"
       /\ (resp.data.integrity_score = <<>> \/ resp.data.news_value_score = <<>>)

\* C15: evaluate_content returns should_publish = false whenever the AI call
\* raises, the response holds no JSON object, the JSON cannot be parsed, or
\* the integrity or the news-value field is missing from it.
C15_FailureNeverApproves ==
    (ai_decision # <<>> /\ AIFailure(ai_response[1]))
        => ~ai_decision[1].should_publish

\* C15, its case: a parsed object without the integrity field, every other
\* sub-score at 100, was evaluated and not approved.
C15_Witness ==
    /\ ai_decision # <<>>
    /\ ai_response[1].kind = "json"
    /\ ai_response[1].data.integrity_score = <<>>
    /\ ai_response[1].data.news_value_score = <<100>>
    /\ ai_response[1].data.quality_score = <<100>>
    /\ ai_response[1].data.audience_score = <<100>>
    /\ ~ai_decision[1].should_publish

\* C16: in hourly_publish_burst a candidate whose adjudication fails (no API
\* key, an error of the AI call, a response that cannot be parsed) is
\* rejected and is not published.
C16_AdjudicationFailureRejects ==
    (b_last # <<>> /\ b_last[1].editor = "failed")
        => b_last[1].outcome = "rejected"

(***************************************************************************)
(* Properties of the posting runs' gates                                   *)
(***************************************************************************)

\* The burst's last iteration asked validate_article and was told not to
\* publish.
BurstRejected(last) ==
    last # <<>> /\ last[1].editor # "not_called" /\ ~last[1].approved

\* The last run of a posting script had its story rejected by the safety
\* gate or by the adjudicator.
MainRejected(last) ==
    last # <<>> /\ (last[1].gate = "rejected" \/ last[1].adjudicator = "rejected")

C27_ReasoningNamesUnmetThreshold ==
    (ai_decision # <<>> /\ ai_response[1].kind = "json") =>
        LET data == ai_response[1].data
            integrity == IF data.integrity_score = <<>> THEN 0 ELSE data.integrity_score[1]
            news_value == IF data.news_value_score = <<>> THEN 0 ELSE data.news_value_score[1]
            d == ai_decision[1]
            unmet == integrity < 60 \/ news_value < 60 \/ d.score < 70
        IN /\ unmet =>
                /\ ~d.should_publish
                /\ \/ d.reasoning = "Failed integrity check" /\ integrity < 60
                   \/ d.reasoning = "Insufficient news value" /\ news_value < 60
                   \/ d.reasoning = "Below quality threshold" /\ d.score < 70
           /\ (data = [integrity_score |-> <<80>>, news_value_score |-> <<50>>,
                       quality_score |-> <<90>>, audience_score |-> <<90>>])
                => /\ d.score = 74
                   /\ ~d.should_publish
                   /\ d.reasoning = "Insufficient news value"

\* C27, its case: integrity 80, news value 50, quality 90 and audience 90
\* were evaluated: overall 74, rejected, the reasoning names the news value.
C27_Witness ==
    /\ ai_decision # <<>>
    /\ ai_response[1].kind = "json"
    /\ ai_response[1].data.integrity_score = <<80>>
    /\ ai_response[1].data.news_value_score = <<50>>
    /\ ai_response[1].data.quality_score = <<90>>
    /\ ai_response[1].data.audience_score = <<90>>
    /\ ai_decision[1].score = 74
    /\ ~ai_decision[1].should_publish
    /\ ai_decision[1].reasoning = "Insufficient news value"

(***************************************************************************)
(* Properties of the DuplicateDetector                                     *)
(***************************************************************************)

\* The similarity a is at least the similarity b.
AtLeast(a, b) == a[1] * b[2] >= b[1] * a[2]

\* The similarity _calculate_similarity returns for the k-th story of the
\* window and the candidate.
SimilarityOf(k) == CalculateSimilarity(dd_headline[1], dd_window[k])[2]

\* is_duplicate returned, and no story of the window has a null description.
DupReturned ==
    /\ dd_result # <<>>
    /\ dd_result[1].outcome = "returned"
    /\ \A k \in DOMAIN dd_window : dd_window[k].description = "text"

\* C19: is_duplicate returns true exactly when a story of the lookback
\* window has a similarity of at least 0.75 with the candidate, and with an
\* empty window it returns false without computing a similarity.
C19_DuplicateIffSimilarStory ==
    DupReturned =>
        /\ dd_result[1].is_duplicate
              <=> \E k \in DOMAIN dd_window : AtLeast(SimilarityOf(k), <<3, 4>>)
        /\ dd_window = <<>>
              => (~dd_result[1].is_duplicate /\ dd_result[1].computed = 0)

\* C19, its case: the only story of the window has a word overlap of exactly
\* 3/4 with the candidate, the similarity call having failed, and
\* is_duplicate returned true.
C19_Witness ==
    /\ DupReturned
    /\ Len(dd_window) = 1
    /\ dd_window[1].reply = <<>>
    /\ SimilarityOf(1) = <<3, 4>>
    /\ dd_result[1].is_duplicate

\* C20: when is_duplicate reports a duplicate, the story its reason names is
\* the story of the window with the highest similarity to the candidate.
C20_ReasonNamesMostSimilar ==
    (DupReturned /\ dd_result[1].is_duplicate) =>
        \A k \in DOMAIN dd_window :
            AtLeast(SimilarityOf(dd_result[1].named), SimilarityOf(k))

\* C20, amended: when is_duplicate reports a duplicate, the story its reason
\* names is the first story of the window, in the order of the query, whose
\* similarity to the candidate is at least 0.75, and no similarity is
\* computed for the stories after it.
C20_ReasonNamesFirstSimilar ==
    (dd_result # <<>> /\ dd_result[1].outcome = "returned"
        /\ dd_result[1].is_duplicate) =>
        LET named == dd_result[1].named IN
        /\ named \in DOMAIN dd_window
        /\ AtLeast(SimilarityOf(named), <<3, 4>>)
        /\ \A k \in 1..(named - 1) : ~AtLeast(SimilarityOf(k), <<3, 4>>)
        /\ dd_result[1].computed = named

\* C20, its case: the second story of the window is more similar to the
\* candidate than the first, both reach 0.75, and the reason names the first.
C20_Witness ==
    /\ DupReturned
    /\ Len(dd_window) = 2
    /\ AtLeast(SimilarityOf(1), <<3, 4>>)
    /\ ~AtLeast(SimilarityOf(1), SimilarityOf(2))
    /\ dd_result[1].is_duplicate
    /\ dd_result[1].named = 1

\* C29: for all texts a and b, _simple_overlap(a, b) equals
\* _simple_overlap(b, a), and the value lies between 0 and 1.
C29_SimpleOverlapSymmetric ==
    so_overlap # <<>> =>
        /\ so_overlap[1] = so_overlap[2]
        /\ \A k \in 1..2 :
              /\ so_overlap[k][2] > 0
              /\ 0 <= so_overlap[k][1]
              /\ so_overlap[k][1] <= so_overlap[k][2]

\* C29, its case: two texts of different lengths with one word in common,
\* compared in both orders: 1/4 each time.
C29_Witness ==
    /\ so_overlap = <<(<<1, 4>>), (<<1, 4>>)>>
    /\ Cardinality(so_texts[1]) = 2
    /\ Cardinality(so_texts[2]) = 3

(***************************************************************************)
(* Properties of the DiversityManager                                      *)
(***************************************************************************)

\* calculate_diversity_penalty returned, having read a window.
PenaltyReturned ==
    /\ div_result # <<>>
    /\ div_result[1].query_ok
    /\ div_result[1].call[1] = "returned"

\* The counts of the window of the state for its candidate.
WindowCounts == DiversityCounts(div_candidate[1], div_window[1])

\* The sum of the penalties of a set of topics, as C22 states them.
RECURSIVE ClaimedTopicSum(_, _, _)
ClaimedTopicSum(topics, counts, posts) ==
    IF topics = {} THEN 0
    ELSE LET topic == CHOOSE x \in topics : TRUE
             add == IF counts[topic] * 10 > 7 * posts THEN 12
                    ELSE IF counts[topic] * 2 > posts THEN 6
                    ELSE 0
         IN add + ClaimedTopicSum(topics \ {topic}, counts, posts)

\* min(50, E + R + T) as C22 states it.
ClaimedPenalty(c) ==
    LET E == IF c.event_frequency >= 5 THEN 40
             ELSE IF c.event_frequency >= 3 THEN 25
             ELSE IF c.event_frequency >= 2 THEN 15
             ELSE 0
        R == IF c.region_frequency * 5 > 4 * c.posts THEN 15
             ELSE IF c.region_frequency * 5 > 3 * c.posts THEN 8
             ELSE 0
        T == ClaimedTopicSum(c.topics, c.topic_counts, c.posts)
    IN IF E + R + T < 50 THEN E + R + T ELSE 50

\* C21: with the region and topic shares of the window held fixed, the result
\* of calculate_diversity_penalty does not decrease when more stories of the
\* window share the event signature of the candidate, and the result lies
\* between 0 and 50.
C21_PenaltyMonotoneAndBounded ==
    (PenaltyReturned /\ WindowSize(div_window[1]) > 0) =>
        LET c == WindowCounts
            With(f) == PenaltyFromCounts(f, c.region_frequency, c.topics,
                                         c.topic_counts, c.posts)
        IN /\ div_result[1].call[2] = With(c.event_frequency)
           /\ div_result[1].call[2] \in 0..50
           /\ \A f \in 0..c.posts : \A g \in f..c.posts : With(f) <= With(g)

\* C21, its case: five stories of the window share the event signature of
\* the candidate, no region and no topic of the candidate is above its
\* threshold, and the penalty is the 40 of five repeats, where three repeats
\* give 25.
C21_Witness ==
    /\ PenaltyReturned
    /\ WindowCounts.event_frequency = 5
    /\ div_result[1].call[2] = 40
    /\ PenaltyFromCounts(3, WindowCounts.region_frequency, WindowCounts.topics,
                         WindowCounts.topic_counts, WindowCounts.posts) = 25

\* C22: calculate_diversity_penalty returns min(50, E + R + T), E being 40, 25,
\* 15 or 0 for an event frequency of >= 5, >= 3, >= 2 or less, R 15, 8 or 0
\* for a share of the candidate's region of > 80%, > 60% or less, T the sum
\* of 12 or 6 for each topic of the candidate with a share of > 70% or > 50%;
\* with an empty window it returns 0.
C22_PenaltyFormula ==
    PenaltyReturned =>
        div_result[1].call[2] =
            IF WindowSize(div_window[1]) = 0 THEN 0 ELSE ClaimedPenalty(WindowCounts)

\* C22, its case: a candidate with two topics, one above 70% of the window
\* and one above 50%, its region above 60%, its event posted twice: the
\* penalty is 15 + 8 + 12 + 6 = 41.
C22_Witness ==
    /\ PenaltyReturned
    /\ Cardinality(WindowCounts.topics) = 2
    /\ WindowCounts.event_frequency = 2
    /\ div_result[1].call[2] = 41

\* The texts about the Venezuela sanctions.
VenezuelaTexts == {t \in StoryTexts : "venezuela" \in WordsOf(t.headline)}

\* Six stories about the Venezuela sanctions are in the window, and the
\* candidate is a seventh.
SeventhVenezuelaHeadline ==
    /\ PenaltyReturned
    /\ div_candidate[1] \in VenezuelaTexts
    /\ WindowSize(div_window[1]) = 6
    /\ \A t \in StoryTexts : div_window[1][t] > 0 => t \in VenezuelaTexts

FailureRecords == {j \in DOMAIN posting_history : ~posting_history[j].success}

\* C23: when a publish call fails, the run has recorded a PostingRecord with
\* success = false, and a burst stops there: it processes no further
\* candidate.
C23_PublishFailureRecordedAndStops ==
    /\ (b_last # <<>> /\ b_last[1].outcome = "publish_failed")
          => (FailureRecords # {} /\ b_pc = "done")
    /\ (m_last # <<>> /\ m_last[1].outcome = "publish_failed")
          => FailureRecords # {}

\* C24: every story a posting run processes was fetched from the store with
\* is_validated true and posted false, and a story that is not validated or
\* is marked rejected is never published.
C24_OnlyValidatedStoriesProcessed ==
    /\ \A k \in 1..Len(articles) :
          k < b_idx => stories[articles[k]].is_validated
    /\ \A i \in StoryIds :
          ig_posts[i] > 0 => (stories[i].is_validated /\ ~stories[i].rejected)

\* The step is a publish attempt of a posting run, and how it ended.
BurstAttempt(outcome) ==
    /\ attempts' = attempts + 1
    /\ b_last'[1].outcome = outcome

MainAttempt(outcome) ==
    /\ m_runs' = m_runs + 1
    /\ m_last'[1].outcome = outcome

\* The step adds exactly one row to posting_history, with this success flag.
OneRecordAdded(success) ==
    /\ Len(posting_history') = Len(posting_history) + 1
    /\ posting_history'[Len(posting_history')].success = success

\* C25: every publish attempt produces exactly one PostingRecord whose
\* success flag equals the outcome of that attempt, and the rows
\* posting_history holds are never modified or deleted.
C25_OneRecordPerPublishAttempt ==
    [][/\ Len(posting_history') >= Len(posting_history)
       /\ \A j \in 1..Len(posting_history) :
             posting_history'[j] = posting_history[j]
       /\ (BurstAttempt("published") \/ MainAttempt("published"))
             => OneRecordAdded(TRUE)
       /\ (BurstAttempt("publish_failed") \/ MainAttempt("publish_failed"))
             => OneRecordAdded(FALSE)]_vars

\* The step is a run of a posting script whose story the safety gate has to
\* reject: a critical pattern matches its content.
RunOnUnsafeStory ==
    /\ m_runs' = m_runs + 1
    /\ m_last'[1].story # <<>>
    /\ CriticalMatch(StoryContent(m_last'[1].story[1]))

\* C26: a story rejected by the safety gate is marked both posted and
\* rejected in the store, so that no later posting run selects it as a
\* candidate again.
C26_UnsafeStoryMarkedPostedAndRejected ==
    [][RunOnUnsafeStory =>
          LET id == m_last'[1].story[1] IN
          /\ stories'[id].posted
          /\ stories'[id].rejected
          /\ \A k \in 1..Len(FetchArticles(stories', FetchLimit)) :
                FetchArticles(stories', FetchLimit)[k] # id]_vars

(***************************************************************************)
(* Properties of the APIKeyManager                                         *)
(***************************************************************************)

\* The configured keys.
ConfiguredKeys == {km_keys[i] : i \in DOMAIN km_keys}

\* C40: after any sequence of get_next_key, mark_key_failed and
\* reset_failed_keys calls, get_next_key never returns a key that is marked
\* failed while at least one unfailed key exists; when every key is marked
\* failed it clears the failed set and returns one of the configured keys.
C40_NextKeyIsNotFailed ==
    km_last # <<>> =>
        LET r == km_last[1]
            unfailed == ConfiguredKeys \ r.failed_before
        IN IF unfailed # {}
           THEN r.key \in unfailed /\ r.failed_after = r.failed_before
           ELSE r.key \in ConfiguredKeys /\ r.failed_after = {}

\* C40, its case: get_next_key returned the one unfailed key of three, the
\* two others and a string that is no key being marked failed.
C40_Witness ==
    /\ km_last # <<>>
    /\ Cardinality(ConfiguredKeys) = 3
    /\ Cardinality(ConfiguredKeys \ km_last[1].failed_before) = 1
    /\ "other" \in km_last[1].failed_before

\* C40, its other case: every key was failed and get_next_key cleared the set.
C40_WitnessAllFailed ==
    /\ km_last # <<>>
    /\ ConfiguredKeys \subseteq km_last[1].failed_before
    /\ km_last[1].failed_after = {}
    /\ Cardinality(ConfiguredKeys) > 1

(***************************************************************************)
(* Properties of two bursts at once                                        *)
(***************************************************************************)

\* The posts of the day, in the store's count.
PostsToday == TotalPosted(db_today)

\* C38: when the scheduled burst and the burst of /test-hourly-burst
\* overlap, interleaving at the burst's await points, no story is published
\* by both, neither burst publishes more than the per-run cap, and the
\* day's posts stay within the daily cap.
C38_OverlappingBurstsPublishOnce ==
    /\ \A i \in StoryIds : Cardinality(pub_by[i]) <= 1
    /\ published <= posts_per_hour_max
    /\ t_published <= posts_per_hour_max
    /\ PostsToday <= DAILY_CAP

(***************************************************************************)
(* Properties of resilient_groq_call                                       *)
(***************************************************************************)

\* The invocations of the wrapped function in the window [t, t + w).
InvokedIn(t, w) == {i \in DOMAIN g_invoked : t <= g_invoked[i] /\ g_invoked[i] < t + w}

\* C37: calls made through resilient_groq_call invoke the wrapped function
\* at most max_calls times (30) in any window of time_window seconds (60),
\* every retry attempt counting as an invocation.
C37_InvocationsWithinRateLimit ==
    \A t \in 0..now : Cardinality(InvokedIn(t, time_window)) <= max_calls

(***************************************************************************)
(* Properties of the burst's stop conditions                               *)
(***************************************************************************)

\* C33: if the circuit breaker protecting the publisher or the AI scorer is
\* OPEN when a burst is about to process a candidate, the burst stops and
\* processes no further candidate.
C33_OpenBreakerStopsBurst ==
    [][(state = "OPEN" /\ b_pc = "loop")
          => (attempts' = attempts /\ b_pc' = "done")]_vars

(***************************************************************************)
(* Properties of a run whose store call fails                              *)
(***************************************************************************)

\* A burst starts and its read of the day's categories fails: the burst
\* holds no category where the store holds some.
CategoriesReadFailed == runs' = runs + 1 /\ posted_categories' # db_today

\* A story is published and the update of its row in the store fails.
StoryUpdateFailed ==
    \E i \in StoryIds : ig_posts'[i] > ig_posts[i] /\ ~stories'[i].posted

\* C32: if a Story Store read or write fails during a posting run, the run
\* aborts and publishes nothing after the failure: the step in which the
\* store call fails ends the run.
C32_StoreFailureAbortsRun ==
    [][(CategoriesReadFailed \/ StoryUpdateFailed) => b_pc' = "done"]_vars

(***************************************************************************)
(* Properties of the order of the gates                                    *)
(***************************************************************************)

\* The adjudicator of the burst and the one of the posting scripts.
Adjudicators == {"validate_article", "evaluate_content"}

\* The safety gate, the duplicate detector and an adjudicator are among the
\* stages, in that order.
GatesInOrder(stages) ==
    \E i, j, k \in DOMAIN stages :
        /\ i < j /\ j < k
        /\ stages[i] = "is_safe_to_post"
        /\ stages[j] = "is_duplicate"
        /\ stages[k] \in Adjudicators

\* C31: for every candidate that is published, the safety gate, the
\* duplicate detector and the adjudicator were each run on it earlier in the
\* same run, in that order; a candidate that fails the safety gate never
\* reaches the adjudicator.
C31_GatesRunInOrderBeforePublish ==
    /\ (b_last # <<>> /\ b_last[1].outcome = "published")
          => GatesInOrder(b_last[1].stages)
    /\ (m_last # <<>> /\ m_last[1].outcome = "published")
          => GatesInOrder(MainStages(m_last[1]))
    /\ (m_last # <<>> /\ m_last[1].gate \in {"rejected", "raised"})
          => m_last[1].adjudicator = "not_called"

=============================================================================
